---- MODULE Spec2Model ----
(***************************************************************************)
(* Model of the signaling and negotiation engine of instant-vid-link:      *)
(* the VideoRoom component (src/src/components/VideoRoom.tsx, first        *)
(* revision in the file, lines 1-810) and the useSupabaseSignaling hook    *)
(* (src/src/hooks/useSupabaseSignaling.ts).                                *)
(*                                                                         *)
(* Every participant of the room runs the same component.  State is kept   *)
(* per participant id.  An async handler is cut at its awaits: the part    *)
(* that runs synchronously is one action, and what runs after an await is  *)
(* a task record in tasks[p] that a later action resumes.  setTimeout      *)
(* callbacks are task records as well.                                     *)
(*                                                                         *)
(* RTCPeerConnection is the browser's; its signaling state machine is      *)
(* modelled after the W3C WebRTC 1.0 rules (setRemoteDescription(offer) in *)
(* have-local-offer rolls the local offer back; operations on a closed     *)
(* connection reject with InvalidStateError).                              *)
(***************************************************************************)
EXTENDS Naturals, Sequences, FiniteSets, TLC

\* ---------------------------------------------------------------- bounds
\* ICE candidates one RTCPeerConnection gathers.
MaxIce == 1
\* User media actions (toggles) per behaviour.
MaxToggles == 2
\* Tracks that end on their own (device unplugged) per behaviour.
MaxEnds == 1
\* Capture requests (getUserMedia / getDisplayMedia) that fail per behaviour.
MaxFails == 1
\* Signal rows with an unknown type or an unusable payload per behaviour.
MaxBad == 1
\* Connections whose transport fails per behaviour.
MaxLost == 1
\* Signals whose insert into the signals table fails per behaviour.
MaxDrops == 1
\* Calls of the hook's joinRoom() beyond the one of initializeMedia per behaviour.
MaxCalls == 3
\* join-room events the relay server receives per behaviour.
MaxJoinRooms == 3
\* offer / answer / ice-candidate events the relay server receives per behaviour.
MaxRelays == 1

\* Participant ids; their numeric order stands for the lexicographic order of the
\* id strings.  The participants that take part in a behaviour are those in room.
Ids == {1, 2, 3}

\* Socket ids and room ids of the relay server (server.js), and the user names a
\* join-room event may carry ("" stands for a missing or empty name).
Sockets == {"s1", "s2", "s3"}
RoomIds == {"a", "b"}
Names == {"", "ann"}

VARIABLES
  room,             \* the participants that open the room page in this behaviour
  phase,            \* lifecycle position of each VideoRoom instance
  localStream,      \* useState localStream: set of track ids ({} is null)
  tracks,           \* MediaStreamTracks each participant ever captured
  isMuted,          \* useState isMuted
  isVideoOff,       \* useState isVideoOff
  isScreenSharing,  \* useState isScreenSharing
  pcs,              \* every RTCPeerConnection each participant constructed
  peerConnections,  \* useRef Map remote id -> RTCPeerConnection (index in pcs, 0 = absent)
  participants,     \* useState participants (list of remote ids)
  incoming,         \* stream of each participants entry (index in pcs of the connection
                    \* whose ontrack set it, 0 = none)
  tasks,            \* pending timers and suspended async continuations
  isJoined,         \* hook's isJoined ref
  presenceDb,       \* rows of the participants table of the room
  evq,              \* realtime events in flight to each subscriber
  budget,           \* what is left of MaxToggles / MaxEnds / MaxFails / MaxBad / MaxLost
  present,          \* history: remote ids announced to p and not yet reported left
  listed,           \* history: remote ids getExistingParticipants returned to p
  leftSeen,         \* history: remote ids whose onParticipantLeft ran at p
  sigSeen,          \* history: p has handled at least one signal
  gotDesc,          \* history: senders whose offer or answer has reached p
  earlyIce,         \* history: candidates that reached p before any offer/answer of the sender
  offerDone,        \* history: senders whose offer p has handled to the end
  lastLeave,        \* history: what the last leave/teardown of p found and did
  reported,         \* console.error of updatePeerConnectionStreams: the links whose update failed
  rooms,            \* server.js: const rooms = new Map() (room id -> Set of socket ids)
  sockets,          \* server.js: every socket's connection state, roomId, userName and
                    \* the socket.io rooms it has joined
  emitted           \* server.js: the events emitted to each socket, in order

vars == <<room, phase, localStream, tracks, isMuted, isVideoOff, isScreenSharing, pcs,
          peerConnections, participants, incoming, tasks, isJoined, presenceDb, evq, budget,
          present, listed, leftSeen, sigSeen, gotDesc, earlyIce, offerDone, lastLeave,
          reported, rooms, sockets, emitted>>

media == <<localStream, tracks, isMuted, isVideoOff, isScreenSharing>>
hist  == <<present, listed, leftSeen, sigSeen, gotDesc, earlyIce, offerDone, lastLeave,
           reported>>
relay == <<rooms, sockets, emitted>>

\* ---------------------------------------------------------------- helpers
Range(s) == {s[i] : i \in 1..Len(s)}

RECURSIVE SetToSeq(_)
\* Rows come back in id order.
SetToSeq(S) ==
  IF S = {} THEN <<>>
  ELSE LET m == CHOOSE x \in S : \A y \in S : x <= y
       IN <<m>> \o SetToSeq(S \ {m})

Subscribed(p) == phase[p] \notin {"idle", "gone"}

\* ---------------------------------------------------------------- tracks
NewTrack(kind, src) == [kind |-> kind, src |-> src, live |-> TRUE, enabled |-> TRUE]

TracksOfKind(p, S, kind) == {t \in S : tracks[p][t].kind = kind}

\* getAudioTracks()[0] / getVideoTracks()[0]: 0 when there is none.
FirstOfKind(p, S, kind) ==
  IF TracksOfKind(p, S, kind) = {} THEN 0
  ELSE CHOOSE t \in TracksOfKind(p, S, kind) : \A u \in TracksOfKind(p, S, kind) : t <= u

\* track.stop() on every track of S.
StopAll(trs, S) == [t \in DOMAIN trs |-> IF t \in S THEN [trs[t] EXCEPT !.live = FALSE] ELSE trs[t]]

\* ---------------------------------------------------------------- RTCPeerConnection
NoDesc == [t |-> "none"]

NoSenders == [audio |-> 0, video |-> 0]

\* new RTCPeerConnection(rtcConfig)
NewPc(remote) ==
  [remote |-> remote, sig |-> "stable",
   pendLocal |-> NoDesc, pendRemote |-> NoDesc, curLocal |-> NoDesc, curRemote |-> NoDesc,
   senders |-> NoSenders, nd |-> 0, iceOut |-> 0, applied |-> <<>>, failed |-> FALSE,
   track |-> "none"]

\* pc.addTrack(track, stream) for every live track of the stream
AddLiveTracks(p, pc, S) ==
  [pc EXCEPT !.senders =
     [k \in {"audio", "video"} |->
        LET L == {t \in TracksOfKind(p, S, k) : tracks[p][t].live}
        IN IF L = {} THEN 0 ELSE CHOOSE t \in L : \A u \in L : t <= u]]

\* The kinds a connection sends.
SenderKinds(pc) == {k \in {"audio", "video"} : pc.senders[k] # 0}

\* pc.ontrack fires when a remote description brings the remote side's media to a
\* connection that has received none so far.
TrackFires(pc, d) == d.sends /\ pc.track = "none"

\* pc.ontrack: setParticipants(prev => prev.map(...)) sets the stream of the
\* remote id's entry; without such an entry the stream is not kept.
OnTrack(pc, d, list) ==
  IF TrackFires(pc, d)
  THEN [pc EXCEPT !.track = IF pc.remote \in Range(list) THEN "shown" ELSE "lost"]
  ELSE pc

\* The entries' streams after a remote description d was set on connection h of p.
ShowStream(p, h, d) ==
  IF TrackFires(pcs[p][h], d) /\ pcs[p][h].remote \in Range(participants[p])
  THEN [incoming EXCEPT ![p][pcs[p][h].remote] = h]
  ELSE incoming

\* pc.remoteDescription: the pending one if any, else the current one
RemoteDescription(pc) == IF pc.pendRemote # NoDesc THEN pc.pendRemote ELSE pc.curRemote
LocalDescription(pc) == IF pc.pendLocal # NoDesc THEN pc.pendLocal ELSE pc.curLocal

\* pc.createOffer() followed by pc.setLocalDescription(offer)
CanSetLocalOffer(pc) == pc.sig \in {"stable", "have-local-offer"}
PcSetLocalOffer(pc, d) == [pc EXCEPT !.sig = "have-local-offer", !.pendLocal = d, !.nd = @ + 1]

\* pc.setRemoteDescription(offer); in have-local-offer the local offer is rolled back
CanSetRemoteOffer(pc) == pc.sig \in {"stable", "have-local-offer", "have-remote-offer"}
PcSetRemoteOffer(pc, d) ==
  [pc EXCEPT !.sig = "have-remote-offer", !.pendRemote = d, !.pendLocal = NoDesc]

\* pc.createAnswer() followed by pc.setLocalDescription(answer)
CanSetLocalAnswer(pc) == pc.sig = "have-remote-offer"
PcSetLocalAnswer(pc, d) ==
  [pc EXCEPT !.sig = "stable", !.curLocal = d, !.curRemote = pc.pendRemote,
             !.pendLocal = NoDesc, !.pendRemote = NoDesc, !.nd = @ + 1]

\* pc.setRemoteDescription(answer)
PcSetRemoteAnswer(pc, d) ==
  [pc EXCEPT !.sig = "stable", !.curRemote = d, !.curLocal = pc.pendLocal,
             !.pendLocal = NoDesc, !.pendRemote = NoDesc]

\* pc.addIceCandidate(candidate)
PcAddIceCandidate(pc, c) == [pc EXCEPT !.applied = Append(@, c)]

\* pc.close()
PcClose(pc) == [pc EXCEPT !.sig = "closed"]

\* The connection's operations chain: a setRemoteDescription(offer) that has been
\* called on connection h and has not settled yet.  Operations called later on the
\* same connection run after it.
SrdPending(p, h) == \E t \in tasks[p] : t.k = "answerSRD" /\ t.h = h

\* An offer or answer created by connection h of participant p.
Desc(t, p, h, pc, cause) ==
  [t |-> t, from |-> p, h |-> h, n |-> pc.nd + 1, cause |-> cause, sends |-> SenderKinds(pc) # {}]

\* A payload that is no session description and no candidate.
Bad == [t |-> "bad", from |-> 0, h |-> 0, n |-> 0, cause |-> "none", sends |-> FALSE]

\* new RTCSessionDescription(payload) handed to setRemoteDescription: the payload
\* has to be a description of the type the branch expects.
DescOk(type, payload) == payload.t = type

\* new RTCIceCandidate(payload) handed to addIceCandidate
CandidateOk(payload) == payload # Bad

\* ---------------------------------------------------------------- relay
\* A row of the signals table (sender_id, target_id, type, payload); target 0
\* stands for a null target_id.
Signal(from, target, type, payload) ==
  [k |-> "sig", from |-> from, to |-> target, type |-> type, payload |-> payload]

\* A hook that hands on every row, whoever it is addressed to.
HookPassesAll(q, row) == TRUE

\* The hook's test on a pushed signals row before it calls onSignalReceived.
HookPasses(q, row) == row.from # q /\ (row.to = q \/ row.to = 0)

\* The realtime service pushes an inserted row to every participant's channel of
\* the room; the hook hands it to onSignalReceived if it passes.
SendTo(q, m) == IF HookPasses(q, m) THEN evq[q] \cup {m} ELSE evq[q]

\* A sendSignal that inserts the row again after a failed insert.
sendSignalRetries(p, target, type, payload, ok) ==
  /\ ok \/ budget.drops > 0
  /\ evq' = [q \in Ids |-> SendTo(q, Signal(p, target, type, payload))]
  /\ budget' = IF ok THEN budget ELSE [budget EXCEPT !.drops = @ - 1]

\* sendSignal(targetId, type, payload): the row is inserted (ok) or the insert
\* fails; the failure is logged inside sendSignal and the caller goes on.
sendSignal(p, target, type, payload, ok) ==
  /\ ok \/ budget.drops > 0
  /\ evq' = IF ok THEN [q \in Ids |-> SendTo(q, Signal(p, target, type, payload))] ELSE evq
  /\ budget' = IF ok THEN budget ELSE [budget EXCEPT !.drops = @ - 1]

\* A participants-table change is pushed to every subscriber; the hook drops a
\* participant's own record.
Announce(ev, kind, id) ==
  [q \in Ids |-> IF q # id /\ Subscribed(q) THEN ev[q] \cup {[k |-> kind, id |-> id]} ELSE ev[q]]

\* ---------------------------------------------------------------- relay server
\* A socket before io.on('connection').
NewSocket == [state |-> "new", roomId |-> "", userName |-> "", joined |-> {}]

\* ---------------------------------------------------------------- initial state
\* Nobody has opened the room page yet.
Fresh ==
  /\ phase = [p \in Ids |-> "idle"]
  /\ localStream = [p \in Ids |-> {}]
  /\ tracks = [p \in Ids |-> <<>>]
  /\ isMuted = [p \in Ids |-> FALSE]
  /\ isVideoOff = [p \in Ids |-> FALSE]
  /\ isScreenSharing = [p \in Ids |-> FALSE]
  /\ pcs = [p \in Ids |-> <<>>]
  /\ peerConnections = [p \in Ids |-> [q \in Ids |-> 0]]
  /\ participants = [p \in Ids |-> <<>>]
  /\ incoming = [p \in Ids |-> [q \in Ids |-> 0]]
  /\ tasks = [p \in Ids |-> {}]
  /\ isJoined = [p \in Ids |-> FALSE]
  /\ presenceDb = {}
  /\ evq = [p \in Ids |-> {}]
  /\ present = [p \in Ids |-> {}]
  /\ listed = [p \in Ids |-> {}]
  /\ leftSeen = [p \in Ids |-> {}]
  /\ sigSeen = [p \in Ids |-> FALSE]
  /\ gotDesc = [p \in Ids |-> {}]
  /\ earlyIce = [p \in Ids |-> [q \in Ids |-> <<>>]]
  /\ offerDone = [p \in Ids |-> {}]
  /\ lastLeave = [p \in Ids |-> [via |-> "none"]]
  /\ reported = [p \in Ids |-> {}]
  /\ rooms = [r \in {} |-> {}]
  /\ sockets = [s \in Sockets |-> NewSocket]
  /\ emitted = [s \in Sockets |-> <<>>]

\* ---------------------------------------------------------------- task helpers
ReplaceTask(p, old, new) == [tasks EXCEPT ![p] = (@ \ {old}) \cup new]

\* createPeerConnection(targetParticipantId, currentStream): always constructs a
\* connection and stores it under the target id, whatever the map held before.
createPeerConnection(p, target, stream) ==
  /\ pcs' = [pcs EXCEPT ![p] = Append(@, AddLiveTracks(p, NewPc(target), stream))]
  /\ peerConnections' = [peerConnections EXCEPT ![p][target] = Len(pcs[p]) + 1]

\* ---------------------------------------------------------------- initializeMedia
\* The component mounts: the hook subscribes to the room's channel and
\* initializeMedia() asks for camera and microphone.
Mount(p) ==
  /\ UNCHANGED <<room, relay>>
  /\ p \in room
  /\ phase[p] = "idle"
  /\ phase' = [phase EXCEPT ![p] = "acquiring"]
  /\ UNCHANGED <<media, pcs, peerConnections, participants, incoming, tasks, isJoined, presenceDb,
                 evq, budget, hist>>

\* getUserMedia resolves: setLocalStream(stream), then joinRoom() is called.
GetUserMediaOk(p) ==
  /\ UNCHANGED <<room, relay>>
  /\ phase[p] = "acquiring"
  /\ LET a == Len(tracks[p]) + 1
         v == Len(tracks[p]) + 2
     IN /\ tracks' = [tracks EXCEPT ![p] = @ \o <<NewTrack("audio", "mic"), NewTrack("video", "cam")>>]
        /\ localStream' = [localStream EXCEPT ![p] = {a, v}]
  /\ phase' = [phase EXCEPT ![p] = "joining"]
  /\ UNCHANGED <<isMuted, isVideoOff, isScreenSharing, pcs, peerConnections, participants, incoming,
                 tasks, isJoined, presenceDb, evq, budget, hist>>

\* getUserMedia rejects: the catch block shows a toast; the room is never joined.
GetUserMediaFail(p) ==
  /\ UNCHANGED <<room, relay>>
  /\ phase[p] = "acquiring"
  /\ budget.fails > 0
  /\ budget' = [budget EXCEPT !.fails = @ - 1]
  /\ phase' = [phase EXCEPT ![p] = "nomedia"]
  /\ UNCHANGED <<media, pcs, peerConnections, participants, incoming, tasks, isJoined, presenceDb,
                 evq, hist>>

\* joinRoom(): the participant row is inserted, the realtime service announces it,
\* isJoined is set; initializeMedia goes on to getExistingParticipants().
joinRoom(p) ==
  /\ UNCHANGED <<room, relay>>
  /\ phase[p] = "joining"
  /\ ~isJoined[p]
  /\ presenceDb' = presenceDb \cup {p}
  /\ evq' = Announce(evq, "join", p)
  /\ isJoined' = [isJoined EXCEPT ![p] = TRUE]
  /\ phase' = [phase EXCEPT ![p] = "listing"]
  /\ UNCHANGED <<media, pcs, peerConnections, participants, incoming, tasks, budget, hist>>

\* joinRoom() whose participants insert is rejected with an error other than a
\* duplicate: the error is logged inside joinRoom, isJoined stays false, and
\* initializeMedia goes on to getExistingParticipants().
joinRoomFails(p) ==
  /\ UNCHANGED <<room, relay>>
  /\ phase[p] = "joining"
  /\ ~isJoined[p]
  /\ phase' = [phase EXCEPT ![p] = "listing"]
  /\ UNCHANGED <<media, pcs, peerConnections, participants, incoming, tasks, isJoined, presenceDb,
                 evq, budget, hist>>

\* A joinRoom() without the isJoined test: every call inserts.
JoinRoomCallUnguarded(p) ==
  /\ UNCHANGED <<room, relay>>
  /\ Subscribed(p)
  /\ budget.calls > 0
  /\ budget' = [budget EXCEPT !.calls = @ - 1]
  /\ tasks' = [tasks EXCEPT ![p] = @ \cup {[k |-> "joinInsert", n |-> budget.calls]}]
  /\ UNCHANGED <<phase, media, pcs, peerConnections, participants, incoming, isJoined, presenceDb,
                 evq, hist>>

\* joinRoom() is called on the hook of a mounted component: it returns at once if
\* isJoined is set, else it awaits the participants insert.
JoinRoomCall(p) ==
  /\ UNCHANGED <<room, relay>>
  /\ Subscribed(p)
  /\ budget.calls > 0
  /\ budget' = [budget EXCEPT !.calls = @ - 1]
  /\ tasks' = IF isJoined[p] THEN tasks
              ELSE [tasks EXCEPT ![p] = @ \cup {[k |-> "joinInsert", n |-> budget.calls]}]
  /\ UNCHANGED <<phase, media, pcs, peerConnections, participants, incoming, isJoined, presenceDb,
                 evq, hist>>

\* The participants insert of a joinRoom() call settles.  The table holds one row
\* per (room, participant): an insert for an existing row fails with a duplicate
\* error, which joinRoom takes for success.  Any other error (~ok) is thrown,
\* caught and logged.
JoinRoomSettle(p, t, ok) ==
  /\ UNCHANGED <<room, relay>>
  /\ t \in tasks[p] /\ t.k = "joinInsert"
  /\ ok \/ budget.fails > 0
  /\ budget' = [budget EXCEPT !.fails = IF ok THEN @ ELSE @ - 1]
  /\ tasks' = ReplaceTask(p, t, {})
  /\ IF ~ok
     THEN UNCHANGED <<isJoined, presenceDb, evq>>
     ELSE /\ isJoined' = [isJoined EXCEPT ![p] = TRUE]
          /\ presenceDb' = presenceDb \cup {p}
          /\ evq' = IF p \in presenceDb THEN evq ELSE Announce(evq, "join", p)
  /\ UNCHANGED <<phase, media, pcs, peerConnections, participants, incoming, hist>>

\* getExistingParticipants() resolves: the list replaces the participants state and
\* a 300 ms timer is set that will offer to each listed participant in turn.
getExistingParticipants(p) ==
  /\ UNCHANGED <<room, relay>>
  /\ phase[p] = "listing"
  /\ LET existing == SetToSeq(presenceDb \ {p})
     IN IF Len(existing) > 0
        THEN /\ participants' = [participants EXCEPT ![p] = existing]
             /\ incoming' = [incoming EXCEPT ![p] = [q \in Ids |-> 0]]
             /\ tasks' = [tasks EXCEPT ![p] = @ \cup
                            {[k |-> "initLoop", rest |-> existing, stream |-> localStream[p]]}]
             /\ present' = [present EXCEPT ![p] = @ \cup Range(existing)]
             /\ listed' = [listed EXCEPT ![p] = Range(existing)]
        ELSE UNCHANGED <<participants, incoming, tasks, present, listed>>
  /\ phase' = [phase EXCEPT ![p] = "inroom"]
  /\ UNCHANGED <<media, pcs, peerConnections, isJoined, presenceDb, evq, budget,
                 leftSeen, sigSeen, gotDesc, earlyIce, offerDone, lastLeave, reported>>

\* The select of getExistingParticipants() runs at the store; its answer is on
\* its way to the component while other events go on being handled.
ListQuery(p) ==
  /\ UNCHANGED <<room, relay>>
  /\ phase[p] = "listing"
  /\ phase' = [phase EXCEPT ![p] = "loading"]
  /\ tasks' = [tasks EXCEPT ![p] = @ \cup {[k |-> "list", existing |-> SetToSeq(presenceDb \ {p})]}]
  /\ UNCHANGED <<media, pcs, peerConnections, participants, incoming, isJoined, presenceDb, evq,
                 budget, hist>>

\* The answer of the select arrives: as getExistingParticipants(p), with the list
\* the store produced when the select ran.
ListResume(p, t) ==
  /\ UNCHANGED <<room, relay>>
  /\ t \in tasks[p] /\ t.k = "list"
  /\ phase[p] = "loading"
  /\ IF Len(t.existing) > 0
     THEN /\ participants' = [participants EXCEPT ![p] = t.existing]
          /\ incoming' = [incoming EXCEPT ![p] = [q \in Ids |-> 0]]
          /\ tasks' = ReplaceTask(p, t, {[k |-> "initLoop", rest |-> t.existing,
                                          stream |-> localStream[p]]})
          /\ present' = [present EXCEPT ![p] = @ \cup Range(t.existing)]
          /\ listed' = [listed EXCEPT ![p] = Range(t.existing)]
     ELSE /\ tasks' = ReplaceTask(p, t, {})
          /\ UNCHANGED <<participants, incoming, present, listed>>
  /\ phase' = [phase EXCEPT ![p] = "inroom"]
  /\ UNCHANGED <<media, pcs, peerConnections, isJoined, presenceDb, evq, budget,
                 leftSeen, sigSeen, gotDesc, earlyIce, offerDone, lastLeave, reported>>

\* The 300 ms timer's loop reaches a participant: createPeerConnection, then
\* await pc.createOffer().
InitLoopCreate(p, t) ==
  /\ UNCHANGED <<room, relay>>
  /\ t \in tasks[p] /\ t.k = "initLoop"
  /\ createPeerConnection(p, Head(t.rest), t.stream)
  /\ tasks' = ReplaceTask(p, t, {[k |-> "initOffer", h |-> Len(pcs[p]) + 1, target |-> Head(t.rest),
                                  rest |-> Tail(t.rest), stream |-> t.stream]})
  /\ UNCHANGED <<phase, media, participants, incoming, isJoined, presenceDb, evq, budget, hist>>

\* createOffer resolved: setLocalDescription(offer), sendSignal(offer); a rejection
\* is caught per participant; then the loop goes on to the next one.
InitOfferResume(p, t) ==
  /\ UNCHANGED <<room, relay>>
  /\ t \in tasks[p] /\ t.k = "initOffer"
  /\ ~SrdPending(p, t.h)
  /\ LET pc == pcs[p][t.h]
         d == Desc("offer", p, t.h, pc, "init")
     IN IF CanSetLocalOffer(pc)
        THEN /\ pcs' = [pcs EXCEPT ![p][t.h] = PcSetLocalOffer(pc, d)]
             /\ \E ok \in BOOLEAN : sendSignal(p, t.target, "offer", d, ok)
        ELSE UNCHANGED <<pcs, evq, budget>>
  /\ tasks' = ReplaceTask(p, t, IF t.rest = <<>> THEN {}
                                ELSE {[k |-> "initLoop", rest |-> t.rest, stream |-> t.stream]})
  /\ UNCHANGED <<phase, media, peerConnections, participants, incoming, isJoined, presenceDb, hist>>

\* ---------------------------------------------------------------- presence callbacks
\* An onParticipantJoined that adds the entry and never offers.
onParticipantJoinedNoOffer(p, q) ==
  /\ UNCHANGED <<room, relay>>
  /\ Subscribed(p)
  /\ [k |-> "join", id |-> q] \in evq[p]
  /\ evq' = [evq EXCEPT ![p] = @ \ {[k |-> "join", id |-> q]}]
  /\ IF q \in Range(participants[p])
     THEN UNCHANGED <<participants, incoming, tasks>>
     ELSE /\ participants' = [participants EXCEPT ![p] = Append(@, q)]
          /\ UNCHANGED incoming
          /\ UNCHANGED tasks
  /\ present' = [present EXCEPT ![p] = @ \cup {q}]
  /\ UNCHANGED <<phase, media, pcs, peerConnections, isJoined, presenceDb, budget,
                 listed, leftSeen, sigSeen, gotDesc, earlyIce, offerDone, lastLeave, reported>>

\* onParticipantJoined(participant)
onParticipantJoined(p, q) ==
  /\ UNCHANGED <<room, relay>>
  /\ Subscribed(p)
  /\ [k |-> "join", id |-> q] \in evq[p]
  /\ evq' = [evq EXCEPT ![p] = @ \ {[k |-> "join", id |-> q]}]
  /\ IF q \in Range(participants[p])
     THEN UNCHANGED <<participants, incoming, tasks>>
     ELSE /\ participants' = [participants EXCEPT ![p] = Append(@, q)]
          /\ UNCHANGED incoming
          /\ tasks' = IF localStream[p] # {}
                      THEN [tasks EXCEPT ![p] = @ \cup
                              {[k |-> "joinTimer", target |-> q, stream |-> localStream[p]]}]
                      ELSE tasks
  /\ present' = [present EXCEPT ![p] = @ \cup {q}]
  /\ UNCHANGED <<phase, media, pcs, peerConnections, isJoined, presenceDb, budget,
                 listed, leftSeen, sigSeen, gotDesc, earlyIce, offerDone, lastLeave, reported>>

\* The 100 ms timer of onParticipantJoined fires: createPeerConnection, then
\* await pc.createOffer(...).
JoinTimerFire(p, t) ==
  /\ UNCHANGED <<room, relay>>
  /\ t \in tasks[p] /\ t.k = "joinTimer"
  /\ createPeerConnection(p, t.target, t.stream)
  /\ tasks' = ReplaceTask(p, t, {[k |-> "joinOffer", h |-> Len(pcs[p]) + 1, target |-> t.target]})
  /\ UNCHANGED <<phase, media, participants, incoming, isJoined, presenceDb, evq, budget, hist>>

\* createOffer resolved: setLocalDescription(offer), sendSignal(offer).
JoinOfferResume(p, t) ==
  /\ UNCHANGED <<room, relay>>
  /\ t \in tasks[p] /\ t.k = "joinOffer"
  /\ ~SrdPending(p, t.h)
  /\ LET pc == pcs[p][t.h]
         d == Desc("offer", p, t.h, pc, "join")
     IN IF CanSetLocalOffer(pc)
        THEN /\ pcs' = [pcs EXCEPT ![p][t.h] = PcSetLocalOffer(pc, d)]
             /\ \E ok \in BOOLEAN : sendSignal(p, t.target, "offer", d, ok)
        ELSE UNCHANGED <<pcs, evq, budget>>
  /\ tasks' = ReplaceTask(p, t, {})
  /\ UNCHANGED <<phase, media, peerConnections, participants, incoming, isJoined, presenceDb, hist>>

\* An onParticipantLeft that closes every stored connection instead of the one
\* of the participant that left.
onParticipantLeftClosesAll(p, q) ==
  /\ UNCHANGED <<room, relay>>
  /\ Subscribed(p)
  /\ [k |-> "left", id |-> q] \in evq[p]
  /\ [k |-> "join", id |-> q] \notin evq[p]
  /\ evq' = [evq EXCEPT ![p] = @ \ {[k |-> "left", id |-> q]}]
  /\ pcs' = [pcs EXCEPT ![p] = [h \in DOMAIN @ |-> [@[h] EXCEPT !.sig = "closed"]]]
  /\ peerConnections' = [peerConnections EXCEPT ![p][q] = 0]
  /\ participants' = [participants EXCEPT ![p] = SelectSeq(@, LAMBDA x : x # q)]
  /\ incoming' = [incoming EXCEPT ![p][q] = 0]
  /\ present' = [present EXCEPT ![p] = @ \ {q}]
  /\ leftSeen' = [leftSeen EXCEPT ![p] = @ \cup {q}]
  /\ UNCHANGED <<phase, media, tasks, isJoined, presenceDb, budget,
                 listed, sigSeen, gotDesc, earlyIce, offerDone, lastLeave, reported>>

\* onParticipantLeft(participantId).  The relay reports a participant's leave
\* after its join.
onParticipantLeft(p, q) ==
  /\ UNCHANGED <<room, relay>>
  /\ Subscribed(p)
  /\ [k |-> "left", id |-> q] \in evq[p]
  /\ [k |-> "join", id |-> q] \notin evq[p]
  /\ evq' = [evq EXCEPT ![p] = @ \ {[k |-> "left", id |-> q]}]
  /\ LET h == peerConnections[p][q]
     IN IF h # 0
        THEN /\ pcs' = [pcs EXCEPT ![p][h] = PcClose(@)]
             /\ peerConnections' = [peerConnections EXCEPT ![p][q] = 0]
        ELSE UNCHANGED <<pcs, peerConnections>>
  /\ participants' = [participants EXCEPT ![p] = SelectSeq(@, LAMBDA x : x # q)]
  /\ incoming' = [incoming EXCEPT ![p][q] = 0]
  /\ present' = [present EXCEPT ![p] = @ \ {q}]
  /\ leftSeen' = [leftSeen EXCEPT ![p] = @ \cup {q}]
  /\ UNCHANGED <<phase, media, tasks, isJoined, presenceDb, budget,
                 listed, sigSeen, gotDesc, earlyIce, offerDone, lastLeave, reported>>

\* ---------------------------------------------------------------- handleSignalReceived
\* type === 'offer', up to the first await: look the connection up, construct and
\* store one if the map has none, call pc.setRemoteDescription(offer).
ReceiveOffer(p, m) ==
  /\ UNCHANGED <<room, relay>>
  /\ Subscribed(p)
  /\ m \in evq[p] /\ m.k = "sig" /\ m.type = "offer"
  /\ evq' = [evq EXCEPT ![p] = @ \ {m}]
  /\ LET old == peerConnections[p][m.from]
         h == IF old = 0 THEN Len(pcs[p]) + 1 ELSE old
     IN /\ IF old = 0
           THEN /\ pcs' = [pcs EXCEPT ![p] = Append(@, AddLiveTracks(p, NewPc(m.from), localStream[p]))]
                /\ peerConnections' = [peerConnections EXCEPT ![p][m.from] = h]
           ELSE UNCHANGED <<pcs, peerConnections>>
        /\ tasks' = [tasks EXCEPT ![p] = @ \cup
                       {[k |-> "answerSRD", h |-> h, from |-> m.from, d |-> m.payload]}]
  /\ sigSeen' = [sigSeen EXCEPT ![p] = TRUE]
  /\ gotDesc' = [gotDesc EXCEPT ![p] = @ \cup {m.from}]
  /\ UNCHANGED <<phase, media, participants, incoming, isJoined, presenceDb, budget,
                 present, listed, leftSeen, earlyIce, offerDone, lastLeave, reported>>

\* setRemoteDescription(offer) settles; on success createAnswer() is called, a
\* rejection goes to the catch block.
AnswerSRD(p, t) ==
  /\ UNCHANGED <<room, relay>>
  /\ t \in tasks[p] /\ t.k = "answerSRD"
  /\ LET pc == pcs[p][t.h]
     IN IF CanSetRemoteOffer(pc) /\ DescOk("offer", t.d)
        THEN /\ pcs' = [pcs EXCEPT ![p][t.h] =
                          OnTrack(PcSetRemoteOffer(pc, t.d), t.d, participants[p])]
             /\ incoming' = ShowStream(p, t.h, t.d)
             /\ tasks' = ReplaceTask(p, t, {[k |-> "answerCreate", h |-> t.h, from |-> t.from]})
        ELSE /\ tasks' = ReplaceTask(p, t, {})
             /\ UNCHANGED <<pcs, incoming>>
  /\ UNCHANGED <<phase, media, peerConnections, participants, isJoined, presenceDb, evq,
                 budget, hist>>

\* createAnswer() settles: setLocalDescription(answer), sendSignal(answer); a
\* rejection goes to the catch block.
AnswerCreate(p, t) ==
  /\ UNCHANGED <<room, relay>>
  /\ t \in tasks[p] /\ t.k = "answerCreate"
  /\ LET pc == pcs[p][t.h]
         d == Desc("answer", p, t.h, pc, "answer")
     IN IF CanSetLocalAnswer(pc)
        THEN /\ pcs' = [pcs EXCEPT ![p][t.h] = PcSetLocalAnswer(pc, d)]
             /\ \E ok \in BOOLEAN : sendSignal(p, t.from, "answer", d, ok)
             /\ offerDone' = [offerDone EXCEPT ![p] = @ \cup {t.from}]
        ELSE UNCHANGED <<pcs, evq, budget, offerDone>>
  /\ tasks' = ReplaceTask(p, t, {})
  /\ UNCHANGED <<phase, media, peerConnections, participants, incoming, isJoined, presenceDb,
                 present, listed, leftSeen, sigSeen, gotDesc, earlyIce, lastLeave, reported>>

\* An answer branch without the signaling state test.
AnswerAppliesAlways(pc) == pc.sig # "closed"

\* An answer branch that tests for the wrong signaling state.
AnswerAppliesInStable(pc) == pc.sig = "stable"

\* pc.signalingState === 'have-local-offer'
AnswerApplies(pc) == pc.sig = "have-local-offer"

\* type === 'answer': setRemoteDescription(answer) is called only on a stored
\* connection in have-local-offer.  Behind a setRemoteDescription(offer) that has
\* not settled it finds the connection in have-remote-offer (or closed) and
\* rejects; the catch block logs it.
ReceiveAnswer(p, m) ==
  /\ UNCHANGED <<room, relay>>
  /\ Subscribed(p)
  /\ m \in evq[p] /\ m.k = "sig" /\ m.type = "answer"
  /\ evq' = [evq EXCEPT ![p] = @ \ {m}]
  /\ LET h == peerConnections[p][m.from]
     IN IF h # 0 /\ AnswerApplies(pcs[p][h]) /\ ~SrdPending(p, h) /\ DescOk("answer", m.payload)
        THEN /\ pcs' = [pcs EXCEPT ![p][h] =
                          OnTrack(PcSetRemoteAnswer(@, m.payload), m.payload, participants[p])]
             /\ incoming' = ShowStream(p, h, m.payload)
        ELSE UNCHANGED <<pcs, incoming>>
  /\ sigSeen' = [sigSeen EXCEPT ![p] = TRUE]
  /\ gotDesc' = [gotDesc EXCEPT ![p] = @ \cup {m.from}]
  /\ UNCHANGED <<phase, media, peerConnections, participants, tasks, isJoined, presenceDb,
                 budget, present, listed, leftSeen, earlyIce, offerDone, lastLeave, reported>>

\* type === 'ice': added only to a stored connection that has a remote description;
\* addIceCandidate on a closed connection rejects and the catch block logs it.
ReceiveIce(p, m) ==
  /\ UNCHANGED <<room, relay>>
  /\ Subscribed(p)
  /\ m \in evq[p] /\ m.k = "sig" /\ m.type = "ice"
  /\ evq' = [evq EXCEPT ![p] = @ \ {m}]
  /\ LET h == peerConnections[p][m.from]
     IN IF /\ h # 0 /\ RemoteDescription(pcs[p][h]) # NoDesc /\ pcs[p][h].sig # "closed"
           /\ CandidateOk(m.payload)
        THEN pcs' = [pcs EXCEPT ![p][h] = PcAddIceCandidate(@, m.payload)]
        ELSE UNCHANGED pcs
  /\ sigSeen' = [sigSeen EXCEPT ![p] = TRUE]
  /\ earlyIce' = IF m.from \in gotDesc[p] THEN earlyIce
                 ELSE [earlyIce EXCEPT ![p][m.from] = Append(@, m.payload)]
  /\ UNCHANGED <<phase, media, peerConnections, participants, incoming, tasks, isJoined, presenceDb,
                 budget, present, listed, leftSeen, gotDesc, offerDone, lastLeave, reported>>

\* pc.onicecandidate: a connection that has a local description gathers a
\* candidate and sends it to its remote id.
OnIceCandidate(p, h) ==
  /\ UNCHANGED <<room, relay>>
  /\ h \in 1..Len(pcs[p])
  /\ LET pc == pcs[p][h]
     IN /\ pc.sig # "closed"
        /\ LocalDescription(pc) # NoDesc
        /\ pc.iceOut < MaxIce
        /\ pcs' = [pcs EXCEPT ![p][h].iceOut = @ + 1]
        /\ \E ok \in BOOLEAN :
             sendSignal(p, pc.remote, "ice", [from |-> p, h |-> h, n |-> pc.iceOut + 1], ok)
  /\ UNCHANGED <<phase, media, peerConnections, participants, incoming, tasks, isJoined, presenceDb, hist>>

\* A signal whose type is none of the three: no branch is taken.
ReceiveOther(p, m) ==
  /\ UNCHANGED <<room, relay>>
  /\ Subscribed(p)
  /\ m \in evq[p] /\ m.k = "sig" /\ m.type \notin {"offer", "answer", "ice"}
  /\ evq' = [evq EXCEPT ![p] = @ \ {m}]
  /\ sigSeen' = [sigSeen EXCEPT ![p] = TRUE]
  /\ UNCHANGED <<phase, media, pcs, peerConnections, participants, incoming, tasks, isJoined, presenceDb,
                 budget, present, listed, leftSeen, gotDesc, earlyIce, offerDone, lastLeave,
                 reported>>

\* A row of the signals table from q to p (0: to nobody in particular) whose type
\* is unknown or whose payload is unusable (the table takes any type text and any
\* JSON payload).
InsertMalformed(q, p, type) ==
  /\ UNCHANGED <<room, relay>>
  /\ budget.bad > 0
  /\ q \in presenceDb
  /\ budget' = [budget EXCEPT !.bad = @ - 1]
  /\ LET row == Signal(q, p, type, Bad)
         got == {r \in Ids : Subscribed(r) /\ HookPasses(r, row)}
     IN /\ got # {}
        /\ evq' = [r \in Ids |-> IF r \in got THEN evq[r] \cup {row} ELSE evq[r]]
  /\ UNCHANGED <<phase, media, pcs, peerConnections, participants, incoming, tasks, isJoined, presenceDb,
                 hist>>

\* pc.onconnectionstatechange with connectionState === 'failed': console.error,
\* nothing else.  The transport runs once both descriptions are set.
onconnectionstatechange(p, h) ==
  /\ UNCHANGED <<room, relay>>
  /\ budget.lost > 0
  /\ h \in 1..Len(pcs[p])
  /\ pcs[p][h].sig # "closed" /\ ~pcs[p][h].failed
  /\ LocalDescription(pcs[p][h]) # NoDesc /\ RemoteDescription(pcs[p][h]) # NoDesc
  /\ budget' = [budget EXCEPT !.lost = @ - 1]
  /\ pcs' = [pcs EXCEPT ![p][h].failed = TRUE]
  /\ UNCHANGED <<phase, media, peerConnections, participants, incoming, tasks, isJoined, presenceDb, evq,
                 hist>>

\* ---------------------------------------------------------------- local media
\* updatePeerConnectionStreams(newStream), up to each entry's first await: one
\* suspended update per entry the map holds at the call.
updatePeerConnectionStreams(p, newStream, cause) ==
  {[k |-> "update", h |-> peerConnections[p][q], target |-> q, stream |-> newStream, cause |-> cause] :
     q \in {r \in Ids : peerConnections[p][r] # 0}}

\* The senders after the replaceTrack / removeTrack / addTrack loops.
ReplaceSenders(p, pc, S) ==
  [pc EXCEPT !.senders = [k \in {"audio", "video"} |-> FirstOfKind(p, S, k)]]

\* An update whose failure is raised: the rejection leaves the fan-out, and the
\* updates of the other entries are abandoned with it.
UpdateResumeRaises(p, t) ==
  /\ UNCHANGED <<room, relay>>
  /\ t \in tasks[p] /\ t.k = "update"
  /\ ~SrdPending(p, t.h)
  /\ LET pc == pcs[p][t.h]
         swapped == ReplaceSenders(p, pc, t.stream)
         d == Desc("offer", p, t.h, swapped, t.cause)
     IN IF pc.sig = "closed"
        THEN /\ reported' = [reported EXCEPT ![p] = @ \cup {t.target}]
             /\ tasks' = [tasks EXCEPT ![p] = {u \in @ : u.k # "update"}]
             /\ UNCHANGED <<pcs, evq, budget>>
        ELSE IF CanSetLocalOffer(pc)
        THEN /\ pcs' = [pcs EXCEPT ![p][t.h] = PcSetLocalOffer(swapped, d)]
             /\ \E ok \in BOOLEAN : sendSignal(p, t.target, "offer", d, ok)
             /\ tasks' = ReplaceTask(p, t, {})
             /\ UNCHANGED reported
        ELSE /\ pcs' = [pcs EXCEPT ![p][t.h] = swapped]
             /\ reported' = [reported EXCEPT ![p] = @ \cup {t.target}]
             /\ tasks' = [tasks EXCEPT ![p] = {u \in @ : u.k # "update"}]
             /\ UNCHANGED <<evq, budget>>
  /\ UNCHANGED <<phase, media, peerConnections, participants, incoming, isJoined, presenceDb,
                 present, listed, leftSeen, sigSeen, gotDesc, earlyIce, offerDone, lastLeave>>

\* One entry's update goes on: tracks are swapped, createOffer(),
\* setLocalDescription(offer), sendSignal(offer); any rejection is caught and logged.
UpdateResume(p, t) ==
  /\ UNCHANGED <<room, relay>>
  /\ t \in tasks[p] /\ t.k = "update"
  /\ ~SrdPending(p, t.h)
  /\ LET pc == pcs[p][t.h]
         swapped == ReplaceSenders(p, pc, t.stream)
         d == Desc("offer", p, t.h, swapped, t.cause)
     IN IF pc.sig = "closed"
        THEN /\ reported' = [reported EXCEPT ![p] = @ \cup {t.target}]
             /\ UNCHANGED <<pcs, evq, budget>>
        ELSE IF CanSetLocalOffer(pc)
        THEN /\ pcs' = [pcs EXCEPT ![p][t.h] = PcSetLocalOffer(swapped, d)]
             /\ \E ok \in BOOLEAN : sendSignal(p, t.target, "offer", d, ok)
             /\ UNCHANGED reported
        ELSE /\ pcs' = [pcs EXCEPT ![p][t.h] = swapped]
             /\ reported' = [reported EXCEPT ![p] = @ \cup {t.target}]
             /\ UNCHANGED <<evq, budget>>
  /\ tasks' = ReplaceTask(p, t, {})
  /\ UNCHANGED <<phase, media, peerConnections, participants, incoming, isJoined, presenceDb,
                 present, listed, leftSeen, sigSeen, gotDesc, earlyIce, offerDone, lastLeave>>

\* A captured camera or microphone track ends on its own (device unplugged,
\* permission revoked).
TrackEnded(p, t) ==
  /\ UNCHANGED <<room, relay>>
  /\ phase[p] = "inroom"
  /\ budget.ends > 0
  /\ t \in localStream[p]
  /\ tracks[p][t].live /\ tracks[p][t].src # "screen"
  /\ tracks' = [tracks EXCEPT ![p][t].live = FALSE]
  /\ budget' = [budget EXCEPT !.ends = @ - 1]
  /\ UNCHANGED <<phase, localStream, isMuted, isVideoOff, isScreenSharing, pcs, peerConnections,
                 participants, incoming, tasks, isJoined, presenceDb, evq, hist>>

\* A mute toggle that renegotiates after flipping the flag, as handleToggleVideo does.
ToggleMuteLiveRenegotiates(p) ==
  LET a == FirstOfKind(p, localStream[p], "audio")
  IN /\ tracks' = [tracks EXCEPT ![p][a].enabled = ~@]
     /\ isMuted' = [isMuted EXCEPT ![p] = tracks[p][a].enabled]
     /\ tasks' = [tasks EXCEPT ![p] = @ \cup updatePeerConnectionStreams(p, localStream[p], "mute")]
     /\ UNCHANGED <<localStream, isVideoOff, isScreenSharing, pcs, peerConnections,
                    participants, incoming, isJoined, presenceDb, evq, hist>>

\* handleToggleMute with a live audio track: flips track.enabled, sets isMuted.
ToggleMuteLive(p) ==
  LET a == FirstOfKind(p, localStream[p], "audio")
  IN /\ tracks' = [tracks EXCEPT ![p][a].enabled = ~@]
     /\ isMuted' = [isMuted EXCEPT ![p] = tracks[p][a].enabled]
     /\ UNCHANGED <<localStream, isVideoOff, isScreenSharing, pcs, peerConnections,
                    participants, incoming, tasks, isJoined, presenceDb, evq, hist>>

\* handleToggleMute with an ended audio track: getUserMedia (video only when
\* !isVideoOff); on success setLocalStream, setIsMuted(false) and
\* updatePeerConnectionStreams; on failure a toast.
ToggleMuteRecover(p, ok) ==
  LET n == Len(tracks[p])
      new == IF isVideoOff[p] THEN <<NewTrack("audio", "mic")>>
             ELSE <<NewTrack("audio", "mic"), NewTrack("video", "cam")>>
      S == {n + i : i \in 1..Len(new)}
  IN IF ok
     THEN /\ tracks' = [tracks EXCEPT ![p] = @ \o new]
          /\ localStream' = [localStream EXCEPT ![p] = S]
          /\ isMuted' = [isMuted EXCEPT ![p] = FALSE]
          /\ tasks' = [tasks EXCEPT ![p] = @ \cup updatePeerConnectionStreams(p, S, "mute")]
          /\ UNCHANGED <<isVideoOff, isScreenSharing, pcs, peerConnections, participants, incoming,
                         isJoined, presenceDb, evq, hist>>
     ELSE UNCHANGED <<media, pcs, peerConnections, participants, incoming, tasks, isJoined,
                      presenceDb, evq, hist>>

\* handleToggleMute
handleToggleMute(p) ==
  /\ phase[p] = "inroom"
  /\ budget.toggles > 0
  /\ FirstOfKind(p, localStream[p], "audio") # 0
  /\ UNCHANGED <<room, relay, phase>>
  /\ IF tracks[p][FirstOfKind(p, localStream[p], "audio")].live
     THEN /\ ToggleMuteLive(p)
          /\ budget' = [budget EXCEPT !.toggles = @ - 1]
     ELSE \E ok \in {TRUE, FALSE} :
            /\ ok \/ budget.fails > 0
            /\ ToggleMuteRecover(p, ok)
            /\ budget' = [budget EXCEPT !.toggles = @ - 1,
                                        !.fails = IF ok THEN @ ELSE @ - 1]

\* handleToggleVideo with a live video track: flips track.enabled, sets isVideoOff
\* and calls updatePeerConnectionStreams(localStream).
ToggleVideoLive(p) ==
  LET v == FirstOfKind(p, localStream[p], "video")
  IN /\ tracks' = [tracks EXCEPT ![p][v].enabled = ~@]
     /\ isVideoOff' = [isVideoOff EXCEPT ![p] = tracks[p][v].enabled]
     /\ tasks' = [tasks EXCEPT ![p] = @ \cup updatePeerConnectionStreams(p, localStream[p], "video")]
     /\ UNCHANGED <<localStream, isMuted, isScreenSharing, pcs, peerConnections,
                    participants, incoming, isJoined, presenceDb, evq, hist>>

\* handleToggleVideo with an ended video track or none: getUserMedia (camera and
\* microphone); on success setLocalStream, setIsVideoOff(false) and
\* updatePeerConnectionStreams; on failure a toast.
ToggleVideoRecover(p, ok) ==
  LET n == Len(tracks[p])
      S == {n + 1, n + 2}
  IN IF ok
     THEN /\ tracks' = [tracks EXCEPT ![p] = @ \o <<NewTrack("audio", "mic"), NewTrack("video", "cam")>>]
          /\ localStream' = [localStream EXCEPT ![p] = S]
          /\ isVideoOff' = [isVideoOff EXCEPT ![p] = FALSE]
          /\ tasks' = [tasks EXCEPT ![p] = @ \cup updatePeerConnectionStreams(p, S, "video")]
          /\ UNCHANGED <<isMuted, isScreenSharing, pcs, peerConnections, participants, incoming,
                         isJoined, presenceDb, evq, hist>>
     ELSE UNCHANGED <<media, pcs, peerConnections, participants, incoming, tasks, isJoined,
                      presenceDb, evq, hist>>

\* handleToggleVideo
handleToggleVideo(p) ==
  /\ phase[p] = "inroom"
  /\ budget.toggles > 0
  /\ localStream[p] # {}
  /\ UNCHANGED <<room, relay, phase>>
  /\ LET v == FirstOfKind(p, localStream[p], "video")
     IN IF v # 0 /\ tracks[p][v].live
        THEN /\ ToggleVideoLive(p)
             /\ budget' = [budget EXCEPT !.toggles = @ - 1]
        ELSE \E ok \in {TRUE, FALSE} :
               /\ ok \/ budget.fails > 0
               /\ ToggleVideoRecover(p, ok)
               /\ budget' = [budget EXCEPT !.toggles = @ - 1,
                                           !.fails = IF ok THEN @ ELSE @ - 1]

\* The local media as the handler finds it when it is called: the stream, its
\* live tracks and the mode flag.
Snapshot(p) ==
  [stream |-> localStream[p], live |-> {t \in localStream[p] : tracks[p][t].live},
   sharing |-> isScreenSharing[p]]

\* handleToggleScreenShare up to its first await.  Sharing: every track of the
\* local stream is stopped, then getUserMedia is awaited.  Not sharing: the video
\* tracks are stopped, the first audio track is remembered, getDisplayMedia is awaited.
handleToggleScreenShare(p) ==
  /\ UNCHANGED <<room, relay>>
  /\ phase[p] = "inroom"
  /\ budget.toggles > 0
  /\ budget' = [budget EXCEPT !.toggles = @ - 1]
  /\ IF isScreenSharing[p]
     THEN /\ tracks' = [tracks EXCEPT ![p] = StopAll(@, localStream[p])]
          /\ tasks' = [tasks EXCEPT ![p] = @ \cup {[k |-> "toCamera", was |-> Snapshot(p)]}]
     ELSE /\ tracks' = [tracks EXCEPT ![p] = StopAll(@, TracksOfKind(p, localStream[p], "video"))]
          /\ tasks' = [tasks EXCEPT ![p] = @ \cup
                         {[k |-> "toScreen", audio |-> FirstOfKind(p, localStream[p], "audio"),
                           was |-> Snapshot(p)]}]
  /\ UNCHANGED <<phase, localStream, isMuted, isVideoOff, isScreenSharing, pcs, peerConnections,
                 participants, incoming, isJoined, presenceDb, evq, hist>>

\* getUserMedia of the switch back to the camera settles.
ToCameraResume(p, t, ok) ==
  /\ UNCHANGED <<room, relay>>
  /\ t \in tasks[p] /\ t.k = "toCamera"
  /\ ok \/ budget.fails > 0
  /\ budget' = [budget EXCEPT !.fails = IF ok THEN @ ELSE @ - 1]
  /\ LET n == Len(tracks[p])
         S == {n + 1, n + 2}
     IN IF ok
        THEN /\ tracks' = [tracks EXCEPT ![p] = @ \o <<NewTrack("audio", "mic"), NewTrack("video", "cam")>>]
             /\ localStream' = [localStream EXCEPT ![p] = S]
             /\ isScreenSharing' = [isScreenSharing EXCEPT ![p] = FALSE]
             /\ isMuted' = [isMuted EXCEPT ![p] = FALSE]
             /\ isVideoOff' = [isVideoOff EXCEPT ![p] = FALSE]
             /\ tasks' = ReplaceTask(p, t, updatePeerConnectionStreams(p, S, "camera"))
        ELSE /\ tasks' = ReplaceTask(p, t, {})
             /\ UNCHANGED media
  /\ UNCHANGED <<phase, pcs, peerConnections, participants, incoming, isJoined, presenceDb, evq, hist>>

\* getDisplayMedia of the switch to screen sharing settles (ok).  The combined
\* stream is the screen track plus the remembered microphone track if it is still
\* live, else a newly captured microphone track (mic), else no audio.
ToScreenResume(p, t, ok, mic) ==
  /\ UNCHANGED <<room, relay>>
  /\ t \in tasks[p] /\ t.k = "toScreen"
  /\ LET n == Len(tracks[p])
         keep == t.audio # 0 /\ tracks[p][t.audio].live
         failed == ~ok \/ (~keep /\ ~mic)
         S == IF keep THEN {n + 1, t.audio} ELSE IF mic THEN {n + 1, n + 2} ELSE {n + 1}
     IN /\ (~ok \/ keep) => mic
        /\ failed => budget.fails > 0
        /\ budget' = [budget EXCEPT !.fails = IF failed THEN @ - 1 ELSE @]
        /\ IF ok
           THEN /\ tracks' = [tracks EXCEPT ![p] = @ \o
                     (IF ~keep /\ mic THEN <<NewTrack("video", "screen"), NewTrack("audio", "mic")>>
                      ELSE <<NewTrack("video", "screen")>>)]
                /\ localStream' = [localStream EXCEPT ![p] = S]
                /\ isScreenSharing' = [isScreenSharing EXCEPT ![p] = TRUE]
                /\ tasks' = ReplaceTask(p, t, updatePeerConnectionStreams(p, S, "screen"))
                /\ UNCHANGED <<isMuted, isVideoOff>>
           ELSE /\ tasks' = ReplaceTask(p, t, {})
                /\ UNCHANGED media
  /\ UNCHANGED <<phase, pcs, peerConnections, participants, incoming, isJoined, presenceDb, evq, hist>>

\* The user stops sharing from the browser's own control: the screen track ends,
\* its 'ended' listener runs and awaits getUserMedia.
ScreenEnded(p, t) ==
  /\ UNCHANGED <<room, relay>>
  /\ phase[p] = "inroom"
  /\ budget.ends > 0
  /\ t \in 1..Len(tracks[p])
  /\ tracks[p][t].src = "screen" /\ tracks[p][t].live
  /\ tracks' = [tracks EXCEPT ![p][t].live = FALSE]
  /\ budget' = [budget EXCEPT !.ends = @ - 1]
  /\ tasks' = [tasks EXCEPT ![p] = @ \cup {[k |-> "endedCapture", track |-> t]}]
  /\ UNCHANGED <<phase, localStream, isMuted, isVideoOff, isScreenSharing, pcs, peerConnections,
                 participants, incoming, isJoined, presenceDb, evq, hist>>

\* getUserMedia of the 'ended' listener settles: on success the camera stream
\* becomes the local stream, the flags are reset and updatePeerConnectionStreams
\* is called; a rejection is logged.
EndedResume(p, t, ok) ==
  /\ UNCHANGED <<room, relay>>
  /\ t \in tasks[p] /\ t.k = "endedCapture"
  /\ ok \/ budget.fails > 0
  /\ budget' = [budget EXCEPT !.fails = IF ok THEN @ ELSE @ - 1]
  /\ LET n == Len(tracks[p])
         S == {n + 1, n + 2}
     IN IF ok
        THEN /\ tracks' = [tracks EXCEPT ![p] = @ \o <<NewTrack("audio", "mic"), NewTrack("video", "cam")>>]
             /\ localStream' = [localStream EXCEPT ![p] = S]
             /\ isScreenSharing' = [isScreenSharing EXCEPT ![p] = FALSE]
             /\ isMuted' = [isMuted EXCEPT ![p] = FALSE]
             /\ isVideoOff' = [isVideoOff EXCEPT ![p] = FALSE]
             /\ tasks' = ReplaceTask(p, t, updatePeerConnectionStreams(p, S, "ended"))
        ELSE /\ tasks' = ReplaceTask(p, t, {})
             /\ UNCHANGED media
  /\ UNCHANGED <<phase, pcs, peerConnections, participants, incoming, isJoined, presenceDb, evq, hist>>

\* ---------------------------------------------------------------- leaving
\* A leaveRoom() that flips the ref instead of resetting it and has no guard.
leaveRoomFlips(s) == [joined |-> ~s.joined, row |-> FALSE]

\* leaveRoom() of the hook on s = [joined, row]: the isJoined ref and whether the
\* participant's row exists.  Not joined: returns at once.  Joined: the
\* cleanup_participant rpc deletes the row, then isJoined is reset.
leaveRoom(s) ==
  IF ~s.joined THEN s ELSE [joined |-> FALSE, row |-> FALSE]

HookState(p) == [joined |-> isJoined[p], row |-> p \in presenceDb]

\* What a settled leaveRoom() leaves behind: the ref, the table, and the DELETE
\* pushed to the subscribers if a row went away.
LeaveRoomDone(p, after) ==
  /\ isJoined' = [isJoined EXCEPT ![p] = after.joined]
  /\ presenceDb' = IF after.row THEN presenceDb \cup {p} ELSE presenceDb \ {p}
  /\ evq' = IF p \in presenceDb /\ ~after.row THEN Announce(evq, "left", p) ELSE evq

\* peerConnections.current.forEach(pc => pc.close())
CloseAll(p) ==
  [h \in DOMAIN pcs[p] |->
     IF \E q \in Ids : peerConnections[p][q] = h THEN PcClose(pcs[p][h]) ELSE pcs[p][h]]

Registered(p) == {peerConnections[p][q] : q \in Ids} \ {0}

\* handleLeaveCall up to its await: the tracks of the local stream are stopped,
\* every stored connection is closed, leaveRoom() is awaited.
handleLeaveCall(p) ==
  /\ UNCHANGED <<room, relay>>
  /\ phase[p] = "inroom"
  /\ tracks' = [tracks EXCEPT ![p] = StopAll(@, localStream[p])]
  /\ pcs' = [pcs EXCEPT ![p] = CloseAll(p)]
  /\ phase' = [phase EXCEPT ![p] = "leaving"]
  /\ lastLeave' = [lastLeave EXCEPT ![p] =
                     [via |-> "leaveCall", stream |-> localStream[p], links |-> Registered(p)]]
  /\ UNCHANGED <<localStream, isMuted, isVideoOff, isScreenSharing, peerConnections,
                 participants, incoming, tasks, isJoined, presenceDb, evq, budget,
                 present, listed, leftSeen, sigSeen, gotDesc, earlyIce, offerDone, reported>>

\* The effect cleanup of the component (unmount): leaveRoom() is called, the
\* tracks of the localStream the effect closed over (the one of the first render,
\* null) are stopped, every stored connection is closed and the map cleared; the
\* hook removes its channel.
Cleanup(p) ==
  /\ pcs' = [pcs EXCEPT ![p] = CloseAll(p)]
  /\ peerConnections' = [peerConnections EXCEPT ![p] = [q \in Ids |-> 0]]
  /\ tracks' = [tracks EXCEPT ![p] = StopAll(@, {})]
  /\ phase' = [phase EXCEPT ![p] = "gone"]

\* leaveRoom() of handleLeaveCall resolves, onLeaveRoom() navigates away and the
\* component unmounts: the cleanup calls leaveRoom() again and closes the stored
\* connections again.
LeaveCallResume(p) ==
  /\ UNCHANGED <<room, relay>>
  /\ phase[p] = "leaving"
  /\ LeaveRoomDone(p, leaveRoom(leaveRoom(HookState(p))))
  /\ Cleanup(p)
  /\ UNCHANGED <<localStream, isMuted, isVideoOff, isScreenSharing, participants, incoming, tasks,
                 budget, hist>>

\* The component unmounts without the leave button (route change): the cleanup
\* runs, its leaveRoom() call completes later.
Unmount(p) ==
  /\ UNCHANGED <<room, relay>>
  /\ phase[p] \in {"inroom", "nomedia"}
  /\ Cleanup(p)
  /\ tasks' = IF isJoined[p] THEN [tasks EXCEPT ![p] = @ \cup {[k |-> "leaveRoom"]}] ELSE tasks
  /\ lastLeave' = [lastLeave EXCEPT ![p] =
                     [via |-> "unmount", stream |-> localStream[p], links |-> Registered(p)]]
  /\ UNCHANGED <<localStream, isMuted, isVideoOff, isScreenSharing, participants, incoming,
                 isJoined, presenceDb, evq, budget,
                 present, listed, leftSeen, sigSeen, gotDesc, earlyIce, offerDone, reported>>

\* The rpc of the cleanup's leaveRoom() completes.
LeaveRoomResume(p, t) ==
  /\ UNCHANGED <<room, relay>>
  /\ t \in tasks[p] /\ t.k = "leaveRoom"
  /\ LeaveRoomDone(p, leaveRoom(HookState(p)))
  /\ tasks' = ReplaceTask(p, t, {})
  /\ UNCHANGED <<phase, media, pcs, peerConnections, participants, incoming, budget, hist>>

\* ---------------------------------------------------------------- relay server
\* The state of the VideoRoom components, which the relay server never touches.
component == <<room, phase, media, pcs, peerConnections, participants, incoming, tasks,
               isJoined, presenceDb, evq, hist>>

\* socket.to(name) for a room id: the connected sockets that joined the socket.io
\* room, the sender left out.
InRoom(name, sender) ==
  {t \in Sockets \ {sender} : sockets[t].state = "connected" /\ name \in sockets[t].joined}

\* emit(ev) to every socket of the set S
Emit(S, ev) == [t \in Sockets |-> IF t \in S THEN Append(emitted[t], ev) ELSE emitted[t]]

\* rooms.get(roomId), the empty set standing for undefined
Members(r) == IF r \in DOMAIN rooms THEN rooms[r] ELSE {}

\* io.on('connection')
connection(s) ==
  /\ sockets[s].state = "new"
  /\ sockets' = [sockets EXCEPT ![s].state = "connected"]
  /\ UNCHANGED <<component, budget, rooms, emitted>>

\* socket.on('join-room'): socket.join(roomId), roomId and userName are stored on
\* the socket, the socket id is added to the room's set (created if missing),
\* user-joined goes to the others in the socket.io room, existing-participants
\* (the other ids of the set that belong to a connected socket) to the socket.
join_room(s, roomId, userName) ==
  /\ sockets[s].state = "connected"
  /\ budget.joins > 0
  /\ budget' = [budget EXCEPT !.joins = @ - 1]
  /\ sockets' = [sockets EXCEPT ![s] = [@ EXCEPT !.roomId = roomId, !.userName = userName,
                                                 !.joined = @ \cup {roomId}]]
  /\ rooms' = [r \in DOMAIN rooms \cup {roomId} |->
                 IF r = roomId THEN Members(roomId) \cup {s} ELSE rooms[r]]
  /\ LET existingParticipants ==
           {[id |-> t, name |-> sockets[t].userName] :
              t \in {u \in Members(roomId) \ {s} : sockets[u].state = "connected"}}
     IN emitted' = [t \in Sockets |->
          IF t \in InRoom(roomId, s)
          THEN Append(emitted[t], [ev |-> "user-joined", id |-> s, name |-> userName])
          ELSE IF t = s
          THEN Append(emitted[t], [ev |-> "existing-participants", list |-> existingParticipants])
          ELSE emitted[t]]
  /\ UNCHANGED component

\* socket.on('offer' / 'answer' / 'ice-candidate'): the event is passed on to the
\* socket whose id is data.to.
signal(s, to, kind) ==
  /\ sockets[s].state = "connected"
  /\ budget.relays > 0
  /\ budget' = [budget EXCEPT !.relays = @ - 1]
  /\ emitted' = Emit({t \in {to} \ {s} : sockets[t].state = "connected"}, [ev |-> kind, from |-> s])
  /\ UNCHANGED <<component, rooms, sockets>>

\* socket.on('disconnect'): the socket has left its socket.io rooms.  If roomId and
\* userName are both set, the id is taken out of the set of roomId, the set is
\* deleted from the map if it is empty, and user-left goes to the others in the
\* socket.io room.
disconnect(s) ==
  /\ sockets[s].state = "connected"
  /\ sockets' = [sockets EXCEPT ![s] = [@ EXCEPT !.state = "disconnected", !.joined = {}]]
  /\ LET roomId == sockets[s].roomId
     IN IF roomId # "" /\ sockets[s].userName # ""
        THEN /\ rooms' = IF roomId \notin DOMAIN rooms THEN rooms
                         ELSE IF rooms[roomId] \ {s} = {}
                         THEN [r \in DOMAIN rooms \ {roomId} |-> rooms[r]]
                         ELSE [rooms EXCEPT ![roomId] = @ \ {s}]
             /\ emitted' = Emit(InRoom(roomId, s),
                                [ev |-> "user-left", id |-> s, name |-> sockets[s].userName])
        ELSE UNCHANGED <<rooms, emitted>>
  /\ UNCHANGED <<component, budget>>

\* ---------------------------------------------------------------- specification
\* A page is opened while no other participant is in the middle of its own
\* initializeMedia (the participants enter the room one after the other).
Settled(p) == \A q \in Ids \ {p} : phase[q] \in {"idle", "inroom", "nomedia", "gone"}

\* Entering the room and learning of the others.
Join(p) ==
  \/ Settled(p) /\ Mount(p)
  \/ GetUserMediaOk(p)
  \/ joinRoom(p)
  \/ getExistingParticipants(p)
  \/ \E q \in Ids : onParticipantJoined(p, q)

\* Offer / answer exchange.
Negotiate(p) ==
  \/ \E t \in tasks[p] : InitLoopCreate(p, t)
  \/ \E t \in tasks[p] : InitOfferResume(p, t)
  \/ \E t \in tasks[p] : JoinTimerFire(p, t)
  \/ \E t \in tasks[p] : JoinOfferResume(p, t)
  \/ \E m \in evq[p] : ReceiveOffer(p, m)
  \/ \E t \in tasks[p] : AnswerSRD(p, t)
  \/ \E t \in tasks[p] : AnswerCreate(p, t)
  \/ \E m \in evq[p] : ReceiveAnswer(p, m)

\* ICE candidates.
Ice(p) ==
  \/ \E h \in 1..Len(pcs[p]) : OnIceCandidate(p, h)
  \/ \E m \in evq[p] : ReceiveIce(p, m)

\* Leaving the room, and the others learning of it.
Leave(p) ==
  \/ handleLeaveCall(p)
  \/ LeaveCallResume(p)
  \/ Unmount(p)
  \/ \E t \in tasks[p] : LeaveRoomResume(p, t)
  \/ \E q \in Ids : onParticipantLeft(p, q)

\* Local media changes.
Media(p) ==
  \/ \E t \in localStream[p] : TrackEnded(p, t)
  \/ handleToggleMute(p)
  \/ handleToggleScreenShare(p)
  \/ \E t \in tasks[p] : \E ok \in BOOLEAN : ToCameraResume(p, t, ok)
  \/ \E t \in tasks[p] : \E ok, mic \in BOOLEAN : ToScreenResume(p, t, ok, mic)
  \/ \E t \in tasks[p] : UpdateResume(p, t)

\* Two participants, no media action; a first getUserMedia may fail.
Init == Fresh /\ room = {1, 2} /\ budget = [toggles |-> 0, ends |-> 0, fails |-> MaxFails, bad |-> 0, lost |-> 0, drops |-> 0, calls |-> 0, joins |-> 0, relays |-> 0]

\* Presence and negotiation with participants coming and going.
Next ==
  \/ \E p \in Ids : Join(p)
  \/ \E p \in Ids : GetUserMediaFail(p)
  \/ \E p \in Ids : Negotiate(p)
  \/ \E p \in Ids : Leave(p)

Spec == Init /\ [][Next]_vars

\* Negotiation with ICE candidates, nobody leaving; every enabled step is
\* eventually taken (timers fire, promises settle, the relay delivers).
NextNegotiation ==
  \/ \E p \in Ids : Join(p)
  \/ \E p \in Ids : Negotiate(p)
  \/ \E p \in Ids : Ice(p)

SpecNegotiation == Init /\ [][NextNegotiation]_vars /\ WF_vars(NextNegotiation)

\* Malformed signal rows and transport failures.
Faults(p) ==
  \/ \E q \in Ids : \E to \in {p, 0} : \E type \in {"offer", "answer", "ice", "bogus"} :
       InsertMalformed(q, to, type)
  \/ \E m \in evq[p] : ReceiveOther(p, m)
  \/ \E h \in 1..Len(pcs[p]) : onconnectionstatechange(p, h)

InitFaults ==
  /\ Fresh /\ room = {1, 2}
  /\ budget = [toggles |-> 0, ends |-> 0, fails |-> 0, bad |-> MaxBad, lost |-> MaxLost, drops |-> 0, calls |-> 0, joins |-> 0, relays |-> 0]

\* Negotiation with malformed signals and failing transports, nobody leaving.
NextFaults ==
  \/ \E p \in Ids : Join(p)
  \/ \E p \in Ids : Negotiate(p)
  \/ \E p \in Ids : Faults(p)

SpecFaults == InitFaults /\ [][NextFaults]_vars

\* The participants whose user acts on the local media.
MediaUsers == {1}

\* Either the user toggles MaxToggles times and captures may fail, or a track
\* ends on its own and the user toggles once less.
MediaBudgets ==
  {[toggles |-> MaxToggles, ends |-> 0, fails |-> MaxFails, bad |-> 0, lost |-> 0, drops |-> 0, calls |-> 0, joins |-> 0, relays |-> 0],
   [toggles |-> MaxToggles - 1, ends |-> MaxEnds, fails |-> 0, bad |-> 0, lost |-> 0, drops |-> 0, calls |-> 0, joins |-> 0, relays |-> 0]}

InitMedia == Fresh /\ room = {1, 2} /\ budget \in MediaBudgets

\* Negotiation with local media changes, nobody leaving.
NextMedia ==
  \/ \E p \in Ids : Join(p)
  \/ \E p \in Ids : Negotiate(p)
  \/ \E p \in MediaUsers : Media(p)

SpecMedia == InitMedia /\ [][NextMedia]_vars


\* The camera button, the screen-share button and the browser's stop-sharing control.
Video(p) ==
  \/ handleToggleVideo(p)
  \/ handleToggleScreenShare(p)
  \/ \E t \in tasks[p] : \E ok, mic \in BOOLEAN : ToScreenResume(p, t, ok, mic)
  \/ \E t \in 1..Len(tracks[p]) : ScreenEnded(p, t)
  \/ \E t \in tasks[p] : \E ok \in BOOLEAN : EndedResume(p, t, ok)
  \/ \E t \in tasks[p] : UpdateResume(p, t)

\* The user presses one button less than MaxToggles, a shared screen may be
\* stopped from the browser, every capture succeeds.
InitVideo ==
  /\ Fresh /\ room = {1, 2}
  /\ budget = [toggles |-> MaxToggles - 1, ends |-> MaxEnds, fails |-> 0, bad |-> 0, lost |-> 0, drops |-> 0, calls |-> 0, joins |-> 0, relays |-> 0]

NextVideo ==
  \/ \E p \in Ids : Join(p)
  \/ \E p \in Ids : Negotiate(p)
  \/ \E p \in MediaUsers : Video(p)

SpecVideo == InitVideo /\ [][NextVideo]_vars


\* Negotiation over a signals table whose inserts may fail, nobody leaving.
InitLossy ==
  /\ Fresh /\ room = {1, 2}
  /\ budget = [toggles |-> 0, ends |-> 0, fails |-> 0, bad |-> 0, lost |-> 0, drops |-> MaxDrops, calls |-> 0, joins |-> 0, relays |-> 0]

NextLossy ==
  \/ \E p \in Ids : Join(p)
  \/ \E p \in Ids : Negotiate(p)
  \/ \E p \in Ids : Ice(p)

SpecLossy == InitLossy /\ [][NextLossy]_vars

\* Presence and negotiation with participants coming and going, where the
\* participants insert of a joinRoom() may be rejected.
NextJoinFails ==
  \/ \E p \in Ids : Join(p)
  \/ \E p \in Ids : joinRoomFails(p)
  \/ \E p \in Ids : Negotiate(p)
  \/ \E p \in Ids : Leave(p)

SpecJoinFails == Init /\ [][NextJoinFails]_vars

\* The hook's joinRoom() called any number of times by mounted components, the
\* calls overlapping at the await of the insert.
InitHook ==
  /\ Fresh /\ room = {1, 2}
  /\ budget = [toggles |-> 0, ends |-> 0, fails |-> MaxFails, bad |-> 0, lost |-> 0, drops |-> 0,
               calls |-> MaxCalls, joins |-> 0, relays |-> 0]

NextHook ==
  \/ \E p \in Ids : Mount(p)
  \/ \E p \in Ids : JoinRoomCall(p)
  \/ \E p \in Ids : \E t \in tasks[p] : \E ok \in BOOLEAN : JoinRoomSettle(p, t, ok)

SpecHook == InitHook /\ [][NextHook]_vars

\* Entering the room where the answer of getExistingParticipants() takes time.
JoinSlow(p) ==
  \/ Settled(p) /\ Mount(p)
  \/ GetUserMediaOk(p)
  \/ joinRoom(p)
  \/ ListQuery(p)
  \/ \E t \in tasks[p] : ListResume(p, t)
  \/ \E q \in Ids : onParticipantJoined(p, q)

\* Presence and negotiation with participants coming and going while the list of
\* existing participants is being loaded.
NextLoad ==
  \/ \E p \in Ids : JoinSlow(p)
  \/ \E p \in Ids : Negotiate(p)
  \/ \E p \in Ids : Leave(p)

SpecLoad == Init /\ [][NextLoad]_vars

\* The relay server alone: sockets connect, join rooms, signal and disconnect.
InitRelay ==
  /\ Fresh /\ room = {}
  /\ budget = [toggles |-> 0, ends |-> 0, fails |-> 0, bad |-> 0, lost |-> 0, drops |-> 0,
               calls |-> 0, joins |-> MaxJoinRooms, relays |-> MaxRelays]

NextRelay ==
  \/ \E s \in Sockets : connection(s)
  \/ \E s \in Sockets : \E roomId \in RoomIds : \E userName \in Names : join_room(s, roomId, userName)
  \/ \E s, to \in Sockets : \E kind \in {"offer", "answer", "ice-candidate"} : signal(s, to, kind)
  \/ \E s \in Sockets : disconnect(s)

SpecRelay == InitRelay /\ [][NextRelay]_vars

\* Everything the user and the browser can do to the local media of a session.
Controls(p) ==
  \/ handleToggleMute(p)
  \/ handleToggleVideo(p)
  \/ handleToggleScreenShare(p)
  \/ \E t \in tasks[p] : \E ok \in BOOLEAN : ToCameraResume(p, t, ok)
  \/ \E t \in tasks[p] : \E ok, mic \in BOOLEAN : ToScreenResume(p, t, ok, mic)
  \/ \E t \in 1..Len(tracks[p]) : ScreenEnded(p, t)
  \/ \E t \in tasks[p] : \E ok \in BOOLEAN : EndedResume(p, t, ok)
  \/ \E t \in localStream[p] : TrackEnded(p, t)

\* One participant alone in the room: no connection exists, so the media
\* handlers' updatePeerConnectionStreams has nothing to do.  The user presses
\* MaxToggles + 1 buttons; a track may end on its own and a capture may fail.
InitAlone ==
  /\ Fresh /\ room = {1}
  /\ budget = [toggles |-> MaxToggles + 1, ends |-> MaxEnds, fails |-> MaxFails, bad |-> 0, lost |-> 0, drops |-> 0, calls |-> 0, joins |-> 0, relays |-> 0]

NextAlone ==
  \/ \E p \in Ids : Mount(p)
  \/ \E p \in Ids : GetUserMediaOk(p)
  \/ \E p \in Ids : joinRoom(p)
  \/ \E p \in Ids : getExistingParticipants(p)
  \/ \E p \in Ids : Controls(p)

SpecAlone == InitAlone /\ [][NextAlone]_vars


\* ---------------------------------------------------------------- three participants
\* The participants that enter last.
Latecomers == {3}

\* No timer, continuation or realtime event is pending anywhere.
Quiet == \A q \in Ids : tasks[q] = {} /\ evq[q] = {}

\* The earlier participants are in the room and have finished negotiating.
Assembled == Quiet /\ \A q \in room \ Latecomers : phase[q] = "inroom"

\* Entering the room; a latecomer opens the page once the others have assembled.
JoinMesh(p) ==
  \/ Settled(p) /\ (p \in Latecomers => Assembled) /\ Mount(p)
  \/ GetUserMediaOk(p)
  \/ joinRoom(p)
  \/ getExistingParticipants(p)
  \/ \E q \in Ids : onParticipantJoined(p, q)

\* Three participants, every getUserMedia succeeds.
InitMesh == Fresh /\ room = {1, 2, 3} /\ budget = [toggles |-> 0, ends |-> 0, fails |-> 0, bad |-> 0, lost |-> 0, drops |-> 0, calls |-> 0, joins |-> 0, relays |-> 0]

\* A third participant joins two that are connected, and may leave again through
\* the leave button once every negotiation has settled.
NextMesh ==
  \/ \E p \in Ids : JoinMesh(p)
  \/ \E p \in Ids : Negotiate(p)
  \/ \E p \in Latecomers : Quiet /\ handleLeaveCall(p)
  \/ \E p \in Latecomers : LeaveCallResume(p)
  \/ \E p \in Ids : \E q \in Ids : onParticipantLeft(p, q)

SpecMesh == InitMesh /\ [][NextMesh]_vars

\* Three participants; the user of one of them switches to screen share once,
\* at any moment of the others' joining and negotiating.
InitMeshMedia ==
  Fresh /\ room = {1, 2, 3} /\ budget = [toggles |-> 1, ends |-> 0, fails |-> 0, bad |-> 0, lost |-> 0, drops |-> 0, calls |-> 0, joins |-> 0, relays |-> 0]

\* The participants whose user leaves the local media alone.
Bystanders == room \ MediaUsers

\* The remote id a timer, continuation or realtime event is about (0: none).
WorkPeer(x) ==
  IF x.k \in {"sig", "answerSRD", "answerCreate"} THEN x.from
  ELSE IF x.k \in {"join", "left"} THEN x.id
  ELSE IF x.k = "initLoop" THEN Head(x.rest)
  ELSE IF x.k \in {"initOffer", "joinTimer", "joinOffer", "update"} THEN x.target
  ELSE 0

\* What is pending at bystander p for its link with another bystander.
SideWork(p) == {x \in tasks[p] \cup evq[p] : WorkPeer(x) \in Bystanders}

\* Scheduling of the links no media user is an end of: while work is pending on
\* such a link, the next step is a step of that work.  These steps read and
\* write nothing of a media user's links, so the order they are interleaved in
\* with the media user's steps is fixed to this one.
Eager ==
  (\E p \in Bystanders : SideWork(p) # {}) =>
     \E p \in Bystanders : \E x \in SideWork(p) : x \notin tasks'[p] \cup evq'[p]

NextMeshMedia ==
  \/ \E p \in Ids : JoinMesh(p) /\ Eager
  \/ \E p \in Ids : Negotiate(p) /\ Eager
  \/ \E p \in MediaUsers : handleToggleScreenShare(p) /\ Eager
  \/ \E p \in MediaUsers : \E t \in tasks[p] : \E ok, mic \in BOOLEAN :
        ToScreenResume(p, t, ok, mic) /\ Eager
  \/ \E p \in MediaUsers : \E t \in tasks[p] : UpdateResume(p, t) /\ Eager

SpecMeshMedia == InitMeshMedia /\ [][NextMeshMedia]_vars

\* ---------------------------------------------------------------- properties
OpenLinks(p, q) == {h \in 1..Len(pcs[p]) : pcs[p][h].remote = q /\ pcs[p][h].sig # "closed"}

\* The link p holds for q is Stable: a stored, negotiated connection.
LinkStable(p, q) ==
  /\ peerConnections[p][q] # 0
  /\ LET pc == pcs[p][peerConnections[p][q]]
     IN pc.sig = "stable" /\ pc.curLocal # NoDesc /\ pc.curRemote # NoDesc

\* C1: for a session that found the room empty and has only seen
\* onParticipantJoined / onParticipantLeft events, once all scheduled work has run the registry holds exactly one link for
\* each remote id that is present and none for an id that has left.
C1_RegistryMatchesPresence ==
  \A p \in Ids :
    (phase[p] = "inroom" /\ listed[p] = {} /\ ~sigSeen[p] /\ tasks[p] = {}) =>
      \A q \in Ids \ {p} :
        /\ (q \in present[p]) => (peerConnections[p][q] # 0 /\ Cardinality(OpenLinks(p, q)) = 1)
        /\ (q \notin present[p]) => (peerConnections[p][q] = 0 /\ OpenLinks(p, q) = {})

\* C5: once onParticipantLeft(C) has run at D, handling a stale Offer from C
\* leaves no link for C in D's registry and starts no answer to C.
C5_StaleOfferIgnored ==
  [][\A p \in Ids : \A q \in leftSeen[p] :
       (\E m \in evq[p] \ evq'[p] : m.k = "sig" /\ m.type = "offer" /\ m.from = q)
         => (peerConnections'[p][q] = 0 /\ tasks'[p] = tasks[p])]_vars

\* C6: at most one peer link exists per remote id: every connection that is still
\* open is the one the registry holds for its remote id.
C6_OneLinkPerRemote ==
  \A p \in Ids : \A h \in 1..Len(pcs[p]) :
    pcs[p][h].sig # "closed" => peerConnections[p][pcs[p][h].remote] = h

C10_LeaveDestroysSession ==
  \A p \in Ids :
    phase[p] = "gone" =>
      /\ \A q \in Ids : peerConnections[p][q] = 0
      /\ \A h \in lastLeave[p].links : pcs[p][h].sig = "closed"
      /\ \A t \in localStream[p] : ~tracks[p][t].live

\* C2 (two-party handshake): with reliable delivery and nobody leaving, each of
\* the two participants' link to the other eventually is Stable and stays so.
C2_HandshakeReachesStable ==
  <>[](\A p \in room : \A q \in room \ {p} : LinkStable(p, q))

\* C2 witness: A offered on B's join, B answered on a link it created for the
\* offer, and A's link became Stable on that answer.
C2_Witness ==
  \E a \in Ids : \E b \in Ids \ {a} :
    /\ LinkStable(a, b) /\ LinkStable(b, a)
    /\ LET pa == pcs[a][peerConnections[a][b]]
           pb == pcs[b][peerConnections[b][a]]
       IN /\ pa.curLocal.t = "offer" /\ pa.curLocal.cause = "join"
          /\ pb.curRemote = pa.curLocal
          /\ pa.curRemote = pb.curLocal

RECURSIVE Restrict(_, _)
\* The subsequence of s of the elements in S.
Restrict(s, S) ==
  IF s = <<>> THEN <<>>
  ELSE IF Head(s) \in S THEN <<Head(s)>> \o Restrict(Tail(s), S)
  ELSE Restrict(Tail(s), S)

\* C3: candidates of a sender that arrived before any of its offers or answers
\* are, once an offer of that sender has been answered, applied to a link for the
\* sender exactly once and in arrival order.
C3_EarlyIceApplied ==
  \A p \in Ids : \A q \in offerDone[p] :
    \E h \in 1..Len(pcs[p]) :
      /\ pcs[p][h].remote = q
      /\ Restrict(pcs[p][h].applied, Range(earlyIce[p][q])) = earlyIce[p][q]

\* C4 (tie-break): a side in OfferSent lets an incoming offer win (rolls its own
\* offer back and takes the remote one) only if its id sorts after the sender's.
C4_GlareTieBreak ==
  [][\A p \in Ids : \A h \in 1..Len(pcs[p]) :
       (pcs[p][h].sig = "have-local-offer" /\ pcs'[p][h].sig = "have-remote-offer")
         => p > pcs[p][h].remote]_vars

\* The microphone track of the local stream is live (readyState is not 'ended').
AudioLive(p) ==
  /\ FirstOfKind(p, localStream[p], "audio") # 0
  /\ tracks[p][FirstOfKind(p, localStream[p], "audio")].live

C8_SwitchRenegotiatesEveryLink ==
  [][\A p \in Ids : \A t \in tasks[p] \ tasks'[p] :
       (t.k = "update" /\ t.cause \in {"screen", "camera"})
         => \E m \in evq'[t.target] \ evq[t.target] :
              m.k = "sig" /\ m.type = "offer" /\ m.from = p]_vars

\* C11: an answer changes a link only if the link is stored and in
\* have-local-offer, and then the link gets the answer as remote description and
\* is Stable; in any other state, or without a link for the sender, handling the
\* answer changes no link, starts no work and sends nothing.
C11_AnswerOnlyInOfferSent ==
  [][\A p \in Ids : \A m \in evq[p] \ evq'[p] :
       (m.k = "sig" /\ m.type = "answer") =>
         LET h == peerConnections[p][m.from]
         IN /\ peerConnections' = peerConnections
            /\ tasks' = tasks
            /\ \A q \in Ids : evq'[q] \subseteq evq[q]
            /\ (h = 0 \/ pcs[p][h].sig # "have-local-offer") => pcs' = pcs
            /\ pcs' # pcs =>
                 /\ pcs'[p][h].sig = "stable" /\ pcs'[p][h].curRemote = m.payload
                 /\ \A r \in Ids : \A g \in 1..Len(pcs[r]) :
                      (r # p \/ g # h) => pcs'[r][g] = pcs[r][g]]_vars

\* C11 witness: a stored link became Stable on an answer to its own offer, and
\* another answer found its link not in have-local-offer.
C11_Witness ==
  \E p \in Ids : \E q \in Ids \ {p} :
    /\ LinkStable(p, q)
    /\ pcs[p][peerConnections[p][q]].curRemote.t = "answer"
    /\ pcs[p][peerConnections[p][q]].curLocal.t = "offer"

\* C12: onParticipantLeft(id) closes the link stored for id and removes it from
\* the registry (nothing happens when there is none), and leaves the links and
\* registry entries of every other remote id as they were.
C12_LeftFrame ==
  [][\A p \in Ids : \A q \in Ids :
       ([k |-> "left", id |-> q] \in evq[p] \ evq'[p]) =>
         LET h == peerConnections[p][q]
         IN /\ peerConnections'[p] = [peerConnections[p] EXCEPT ![q] = 0]
            /\ Len(pcs'[p]) = Len(pcs[p])
            /\ h # 0 => pcs'[p][h] = [pcs[p][h] EXCEPT !.sig = "closed"]
            /\ \A g \in 1..Len(pcs[p]) : g # h => pcs'[p][g] = pcs[p][g]
            /\ tasks' = tasks]_vars

\* C12 witness: a participant has handled the leave of one remote id, whose link
\* it closed, and still holds an open link for another remote id.
C12_Witness ==
  \E p \in Ids : \E q \in leftSeen[p] : \E r \in Ids \ {p, q} :
    /\ peerConnections[p][q] = 0
    /\ \E h \in 1..Len(pcs[p]) : pcs[p][h].remote = q /\ pcs[p][h].sig = "closed"
    /\ peerConnections[p][r] # 0
    /\ pcs[p][peerConnections[p][r]].sig # "closed"

\* C13: once the work onParticipantJoined(q) scheduled at p has run, p's registry
\* holds a link for q, whether or not p had local media when the event arrived.
C13_JoinLeavesLink ==
  \A p \in Ids :
    (phase[p] \notin {"idle", "leaving", "gone"} /\ tasks[p] = {}) =>
      \A q \in present[p] \ listed[p] : peerConnections[p][q] # 0

\* C14: handling a signal of any type (offer, answer, ice) leaves a link for the
\* signal's sender in the registry, created first if there was none.
C14_SignalCreatesLink ==
  [][\A p \in Ids : \A m \in evq[p] \ evq'[p] :
       m.k = "sig" => peerConnections'[p][m.from] # 0]_vars

\* C15 (full mesh): with reliable delivery and nobody leaving, eventually every
\* participant holds exactly one link to every other participant (one open
\* connection, the one in the registry) and that link is Stable, for good.
C15_FullMesh ==
  <>[](\A p \in room : \A q \in room \ {p} :
         LinkStable(p, q) /\ Cardinality(OpenLinks(p, q)) = 1)

\* Participant p has a connection for q whose local description is an offer it
\* made for the given reason.
HoldsOffer(p, q, cause) ==
  \E h \in 1..Len(pcs[p]) :
    /\ pcs[p][h].remote = q
    /\ LocalDescription(pcs[p][h]) # NoDesc
    /\ LocalDescription(pcs[p][h]).t = "offer"
    /\ LocalDescription(pcs[p][h]).cause = cause

\* C16: when a participant joins a room where another is present, the two sides
\* do not both make an initial offer to each other: never does the one that was
\* present hold its offer to the newcomer (made on the join event) while the
\* newcomer holds its offer to the one that was present (made from the listing).
C16_NoDoubleOffer ==
  \A a \in Ids : \A b \in Ids \ {a} :
    ~(HoldsOffer(a, b, "join") /\ HoldsOffer(b, a, "init"))

\* The remote id a pending offer timer or suspended offer creation works for.
TaskTarget(t) == IF t.k = "initLoop" THEN Head(t.rest) ELSE t.target

\* C17: once onParticipantLeft(id) has run, a delayed-offer timer or suspended
\* offer creation that was started for id constructs no connection, puts nothing
\* into the registry for id and sends nothing to id when it runs.
C17_LeftCancelsWork ==
  [][\A p \in Ids : \A t \in tasks[p] \ tasks'[p] :
       (t.k \in {"joinTimer", "joinOffer", "initLoop", "initOffer"}
          /\ TaskTarget(t) \in leftSeen[p]) =>
         /\ Len(pcs'[p]) = Len(pcs[p])
         /\ peerConnections'[p][TaskTarget(t)] = peerConnections[p][TaskTarget(t)]
         /\ evq'[TaskTarget(t)] \subseteq evq[TaskTarget(t)]]_vars

\* C18 (FIFO per sender): a signal from a sender is evaluated only after the
\* handling of every earlier signal from that sender is complete: no offer of
\* that sender is still waiting for setRemoteDescription or createAnswer.
C18_FifoPerSender ==
  [][\A p \in Ids : \A m \in evq[p] \ evq'[p] :
       m.k = "sig" =>
         ~\E t \in tasks[p] : t.k \in {"answerSRD", "answerCreate"} /\ t.from = m.from]_vars

\* C19: links progress independently: while the initial offer for one listed
\* participant is suspended, no other listed participant's offer waits behind it.
C19_NoPeerWaits ==
  \A p \in Ids : \A t \in tasks[p] : t.k = "initOffer" => t.rest = <<>>

\* C20: the fan-out isolates failures per link: when the update of one entry
\* settles, no other connection and no other entry's pending update is touched;
\* a connection that is not closed gets the new tracks, one that can take a local
\* offer gets its Offer sent, and one that cannot is reported.
C20_FanOutIsolated ==
  [][\A p \in Ids : \A t \in tasks[p] \ tasks'[p] :
       t.k = "update" =>
         /\ tasks'[p] = tasks[p] \ {t}
         /\ \A g \in 1..Len(pcs[p]) : g # t.h => pcs'[p][g] = pcs[p][g]
         /\ pcs[p][t.h].sig # "closed" =>
              pcs'[p][t.h].senders = [k \in {"audio", "video"} |-> FirstOfKind(p, t.stream, k)]
         /\ IF pcs[p][t.h].sig \in {"stable", "have-local-offer"}
            THEN /\ \E m \in evq'[t.target] \ evq[t.target] :
                      m.k = "sig" /\ m.type = "offer" /\ m.from = p /\ m.payload.cause = t.cause
                 /\ reported' = reported
            ELSE /\ t.target \in reported'[p]
                 /\ evq' = evq]_vars

\* C20 witness: a fan-out over two links has finished; the update of one link
\* failed and was reported, the other link got the new tracks and holds the
\* offer made for the switch.
C20_Witness ==
  \E p \in Ids : \E a \in reported[p] : \E b \in Ids \ {p, a} :
    /\ \A t \in tasks[p] : t.k # "update"
    /\ isScreenSharing[p]
    /\ peerConnections[p][b] # 0
    /\ b \notin reported[p]
    /\ HoldsOffer(p, b, "screen")
    /\ pcs[p][peerConnections[p][b]].senders.video \in localStream[p]

\* The handling of an offer that is suspended in task t is about to reach the
\* catch block: setRemoteDescription or createAnswer / setLocalDescription rejects.
OfferHandlingFails(p, t) ==
  \/ t.k = "answerSRD" /\ ~(CanSetRemoteOffer(pcs[p][t.h]) /\ DescOk("offer", t.d))
  \/ t.k = "answerCreate" /\ ~CanSetLocalAnswer(pcs[p][t.h])

\* C21: a single peer's failure is contained and marks that peer's link: when the
\* handling of a signal of peer A rejects, every other connection, the rest of the
\* registry, the local media and the joined state are unchanged, and A's link is
\* failed afterwards (its connection is failed or closed, or has left the registry).
C21_PeerFailureContained ==
  [][\A p \in Ids : \A t \in tasks[p] \ tasks'[p] :
       (t.k \in {"answerSRD", "answerCreate"} /\ OfferHandlingFails(p, t)) =>
         /\ \A g \in 1..Len(pcs[p]) : g # t.h => pcs'[p][g] = pcs[p][g]
         /\ \A q \in Ids \ {t.from} : peerConnections'[p][q] = peerConnections[p][q]
         /\ UNCHANGED <<media, isJoined>>
         /\ \/ pcs'[p][t.h].failed
            \/ pcs'[p][t.h].sig = "closed"
            \/ peerConnections'[p][t.from] # t.h]_vars

\* C22: a failed capture leaves the previous local media untouched: when the
\* capture of a mode switch fails, the local stream, the liveness of each of its
\* tracks and the mode flag are what they were when the switch was requested.
C22_FailedCaptureKeepsMedia ==
  [][\A p \in Ids : \A t \in tasks[p] \ tasks'[p] :
       (t.k \in {"toScreen", "toCamera"} /\ localStream'[p] = localStream[p]) =>
         Snapshot(p)' = t.was]_vars

\* C23: screen sharing falls back to the camera: when the getUserMedia of the
\* screen track's 'ended' listener succeeds, the session is in camera mode with
\* the live camera stream as local stream and an update is started for every link
\* of the registry; and every such update puts the camera tracks on its link and
\* sends the link's remote id a new Offer.
C23_ScreenEndFallsBack ==
  [][\A p \in Ids : \A t \in tasks[p] \ tasks'[p] :
       /\ (t.k = "endedCapture" /\ localStream'[p] # localStream[p]) =>
            /\ ~isScreenSharing'[p]
            /\ \A x \in localStream'[p] :
                 tracks'[p][x].live /\ tracks'[p][x].src \in {"cam", "mic"}
            /\ \A q \in Ids : peerConnections[p][q] # 0 =>
                 \E u \in tasks'[p] : u.k = "update" /\ u.target = q /\ u.cause = "ended"
       /\ (t.k = "update" /\ t.cause = "ended") =>
            /\ pcs'[p][t.h].senders = [k \in {"audio", "video"} |-> FirstOfKind(p, t.stream, k)]
            /\ \E m \in evq'[t.target] \ evq[t.target] :
                 m.k = "sig" /\ m.type = "offer" /\ m.from = p /\ m.payload.cause = "ended"]_vars

\* C24: toggling the camera while its track is live only flips the track's enabled
\* flag: the step that flips it starts no link update, changes no connection and
\* sends nothing.
C24_VideoToggleOnlyFlips ==
  [][\A p \in Ids :
       (\E v \in TracksOfKind(p, localStream[p], "video") :
           tracks[p][v].live /\ tracks'[p][v].enabled # tracks[p][v].enabled) =>
         /\ tasks'[p] = tasks[p]
         /\ pcs'[p] = pcs[p]
         /\ evq' = evq]_vars

\* The kinds a stream holds.
StreamKinds(p, S) == {k \in {"audio", "video"} : FirstOfKind(p, S, k) # 0}

\* C25: an update of the local tracks starts a new offer cycle on a link only if
\* the set of outgoing kinds changes: an update that finds the link sending the
\* kinds the new stream holds sends no Offer.
C25_SameKindsNoOffer ==
  [][\A p \in Ids : \A t \in tasks[p] \ tasks'[p] :
       (t.k = "update" /\ SenderKinds(pcs[p][t.h]) = StreamKinds(p, t.stream)) =>
         ~\E m \in evq'[t.target] \ evq[t.target] : m.k = "sig" /\ m.type = "offer"]_vars

\* C26: no candidate is discarded on the offering side: a usable candidate that
\* is handled while the sender's link awaits the answer (have-local-offer) is
\* applied to the link, or the handling leaves work behind that still holds it.
C26_NoCandidateDiscarded ==
  [][\A p \in Ids : \A m \in evq[p] \ evq'[p] :
       (/\ m.k = "sig" /\ m.type = "ice" /\ CandidateOk(m.payload)
        /\ peerConnections[p][m.from] # 0
        /\ pcs[p][peerConnections[p][m.from]].sig = "have-local-offer") =>
         \/ m.payload \in Range(pcs'[p][peerConnections[p][m.from]].applied)
         \/ tasks'[p] \ tasks[p] # {}]_vars

\* C27: an outgoing Offer is created only from Idle or Stable: whenever a
\* participant sends an Offer made by one of its connections, that connection was
\* in signaling state stable when the Offer was made.
C27_OfferOnlyFromStable ==
  [][\A p \in Ids : \A q \in Ids : \A m \in evq'[q] \ evq[q] :
       (m.k = "sig" /\ m.type = "offer" /\ m.from = p /\ DescOk("offer", m.payload)) =>
         pcs[p][m.payload.h].sig = "stable"]_vars

\* A signal whose type is none of the three or whose payload is unusable.
Malformed(m) ==
  \/ m.type \notin {"offer", "answer", "ice"}
  \/ m.type \in {"offer", "answer"} /\ ~DescOk(m.type, m.payload)
  \/ m.type = "ice" /\ ~CandidateOk(m.payload)

\* C28: a malformed signal is dropped: the step that takes it off the channel,
\* and the step in which its setRemoteDescription rejects, change no connection,
\* put nothing into the registry and send nothing.
C28_MalformedDropped ==
  [][\A p \in Ids :
       (\/ \E m \in evq[p] \ evq'[p] : m.k = "sig" /\ Malformed(m)
        \/ \E t \in tasks[p] \ tasks'[p] : t.k = "answerSRD" /\ ~DescOk("offer", t.d)) =>
         /\ pcs'[p] = pcs[p]
         /\ peerConnections'[p] = peerConnections[p]
         /\ \A q \in Ids \ {p} : evq'[q] \subseteq evq[q]]_vars

\* C29: Failed and Closed are terminal for a link: a connection that is closed, or
\* whose transport has reported failure, keeps its signaling state and sends no
\* Offer or Answer afterwards.
C29_FailedClosedTerminal ==
  [][\A p \in Ids : \A h \in 1..Len(pcs[p]) :
       (pcs[p][h].sig = "closed" \/ pcs[p][h].failed) =>
         /\ pcs'[p][h].sig = pcs[p][h].sig
         /\ \A q \in Ids : \A m \in evq'[q] \ evq[q] :
              (m.k = "sig" /\ m.type \in {"offer", "answer"} /\ m.from = p) => m.payload.h # h]_vars

\* The entries of p's participants list for q.
Entries(p, q) == {i \in 1..Len(participants[p]) : participants[p][i] = q}

AllWentWell(p) == budget.ends = MaxEnds /\ budget.fails = MaxFails /\ tasks[p] = {}

\* C31: after any sequence of mute, camera and screen-share toggles with live
\* tracks, isMuted is the negation of the current audio track's enabled flag and
\* isVideoOff is the negation of the current video track's enabled flag.
C31_FlagsMatchTracks ==
  \A p \in room :
    (phase[p] = "inroom" /\ AllWentWell(p)) =>
      LET a == FirstOfKind(p, localStream[p], "audio")
          v == FirstOfKind(p, localStream[p], "video")
      IN /\ (a # 0 /\ tracks[p][a].live) => (isMuted[p] = ~tracks[p][a].enabled)
         /\ (v # 0 /\ tracks[p][v].live) => (isVideoOff[p] = ~tracks[p][v].enabled)

\* A sendSignal fails in this step.
SendFails == budget'.drops < budget.drops

\* Connection h of participant p after the step is what setLocalDescription made
\* of it (or it has handed out one more candidate), and nothing else.
AsAfterLocalDescription(p, h) ==
  LET old == pcs[p][h]
      new == pcs'[p][h]
  IN \/ new = old
     \/ new = [old EXCEPT !.iceOut = @ + 1]
     \/ /\ LocalDescription(new) # NoDesc
        /\ new \in {PcSetLocalOffer(old, LocalDescription(new)),
                    PcSetLocalOffer(ReplaceSenders(p, old, localStream[p]), LocalDescription(new)),
                    PcSetLocalAnswer(old, LocalDescription(new))}

\* The rows a step inserts into the signals table.
Inserted == UNION {evq'[q] \ evq[q] : q \in Ids}

\* C32: a failed sendSignal is never retried, raises nothing to its caller and
\* leaves the registry and every link as they were after the local description
\* was set: the failing step inserts no row, leaves the registry alone, lets the
\* caller's loop go on, and every row any step inserts carries a description or
\* candidate made in that very step.
C32_SendFireAndForget ==
  [][/\ SendFails =>
          /\ evq' = evq
          /\ peerConnections' = peerConnections
          /\ reported' = reported
          /\ \A p \in Ids : Len(pcs'[p]) = Len(pcs[p])
          /\ \A p \in Ids : \A h \in 1..Len(pcs[p]) : AsAfterLocalDescription(p, h)
          /\ \A p \in Ids : \A t \in tasks[p] \ tasks'[p] :
               tasks'[p] = (tasks[p] \ {t}) \cup
                 (IF t.k = "initOffer" /\ t.rest # <<>>
                  THEN {[k |-> "initLoop", rest |-> t.rest, stream |-> t.stream]} ELSE {})
     /\ \A m \in Inserted :
          (m.k = "sig" /\ m.payload # Bad) =>
             /\ m.payload.h \in 1..Len(pcs[m.from])
             /\ IF m.type = "ice"
                THEN m.payload.n > pcs[m.from][m.payload.h].iceOut
                ELSE m.payload.n > pcs[m.from][m.payload.h].nd]_vars

\* An offer whose insert failed: the link stays in have-local-offer with it, the
\* peer never hears of it, and nothing is left to run.
C32_Witness ==
  \E p \in room : \E h \in 1..Len(pcs[p]) :
    LET pc == pcs[p][h]
    IN /\ budget.drops < MaxDrops
       /\ pc.sig = "have-local-offer" /\ pc.pendLocal.t = "offer"
       /\ peerConnections[p][pc.remote] = h
       /\ \A g \in 1..Len(pcs[pc.remote]) : RemoteDescription(pcs[pc.remote][g]) # pc.pendLocal
       /\ \A q \in room : phase[q] = "inroom" /\ tasks[q] = {} /\ evq[q] = {}

\* C33: the hook hands the component only events that concern it: a signal whose
\* sender is another participant and whose target is the participant itself or
\* null, and presence events of other participants' records.
C33_OnlyOwnEvents ==
  \A p \in Ids : \A m \in evq[p] :
    IF m.k = "sig" THEN m.from # p /\ m.to \in {p, 0} ELSE m.id # p

\* A row without target waits at one participant and was not handed to its sender,
\* whose channel is open too.
C33_Witness ==
  \E p \in room : \E m \in evq[p] :
    /\ m.k = "sig" /\ m.to = 0
    /\ Subscribed(m.from) /\ m \notin evq[m.from]

\* The joinRoom() of participant p has failed: initializeMedia is past it and the
\* isJoined ref is false.
JoinFailed(p) == ~isJoined[p] /\ phase[p] \in {"listing", "inroom"}

\* C34: a session whose joinRoom failed keeps the joined flag false, sends no
\* offer, and performs no presence cleanup when it leaves.
C34_NoOfferUnlessJoined ==
  [][\A p \in room :
       JoinFailed(p) =>
         /\ ~isJoined'[p]
         /\ \A m \in Inserted :
              /\ ~(m.k = "sig" /\ m.type = "offer" /\ m.from = p)
              /\ ~(m.k = "left" /\ m.id = p)
         /\ (p \in presenceDb') = (p \in presenceDb)]_vars

Delivered == \A r \in Ids : tasks[r] = {} /\ (Subscribed(r) => evq[r] = {})

\* C36: the participant list never holds an id twice and, once every delivered
\* event is processed, holds exactly the remote participants that are present.
C36_ListMatchesPresence ==
  \A p \in room :
    /\ \A q \in Ids : Cardinality(Entries(p, q)) <= 1
    /\ (phase[p] = "inroom" /\ isJoined[p] /\ Delivered) =>
         Range(participants[p]) = presenceDb \ {p}

\* C37: isScreenSharing is true exactly when the video track of the local stream
\* is a screen-capture track.
C37_SharingFlagMatchesTrack ==
  \A p \in room :
    phase[p] = "inroom" =>
      LET v == FirstOfKind(p, localStream[p], "video")
      IN isScreenSharing[p] <=> (v # 0 /\ tracks[p][v].src = "screen")

\* C38: after a socket has disconnected its id is a member of no room's set.
C38_DisconnectedInNoRoom ==
  \A s \in Sockets :
    sockets[s].state = "disconnected" => \A r \in DOMAIN rooms : s \notin rooms[r]

\* Socket s disconnects in this step.
Disconnects(s) == sockets[s].state = "connected" /\ sockets'[s].state = "disconnected"

\* C39: no room of the rooms map has an empty set, and a room whose last member
\* disconnects is removed from the map.
C39_NoEmptyRoom ==
  [][/\ \A r \in DOMAIN rooms' : rooms'[r] # {}
     /\ \A s \in Sockets :
          Disconnects(s) => \A r \in DOMAIN rooms : rooms[r] = {s} => r \notin DOMAIN rooms']_vars

\* Socket s handles a join-room event in this step.
Joins(s) ==
  /\ budget'.joins < budget.joins
  /\ Len(emitted'[s]) = Len(emitted[s]) + 1
  /\ emitted'[s][Len(emitted'[s])].ev = "existing-participants"

\* The members of room r that can be told anything, socket s left out.
Others(r, s) == {t \in Members(r) \ {s} : sockets[t].state = "connected"}

\* C40: on join-room the joiner receives existing-participants with the room's
\* other members, user-joined goes to each of them and not to the joiner; when a
\* socket that is a member of a room disconnects, user-left goes to the remaining
\* members of that room.
C40_JoinAndLeaveNotified ==
  [][\A s \in Sockets :
       /\ Joins(s) =>
            LET r == sockets'[s].roomId
                last == emitted'[s][Len(emitted'[s])]
            IN /\ {x.id : x \in last.list} = Others(r, s)
               /\ \A t \in Sockets \ {s} :
                    emitted'[t] = IF t \in Others(r, s)
                                  THEN Append(emitted[t], [ev |-> "user-joined", id |-> s,
                                                           name |-> sockets'[s].userName])
                                  ELSE emitted[t]
       /\ Disconnects(s) =>
            \A r \in DOMAIN rooms : s \in rooms[r] =>
              \A t \in Others(r, s) :
                /\ Len(emitted'[t]) = Len(emitted[t]) + 1
                /\ emitted'[t][Len(emitted'[t])].ev = "user-left"
                /\ emitted'[t][Len(emitted'[t])].id = s]_vars

====
